---- MODULE Spec2Model ----
(***************************************************************************)
(* Model of the reconciliation handlers of mongodb-atlas-kubernetes:       *)
(*   - ensureCloudProviderIntegration (package atlasproject) with its      *)
(*     deletion-protection gate, status enrichment and per-item sync loop; *)
(*   - AtlasFederatedAuthReconciler.Reconcile (package atlasfederatedauth);*)
(*   - ensurePrivateEndpoints (package atlasdatafederation).               *)
(* The Atlas API is an environment: a set of cloud provider access roles   *)
(* that the handler lists, creates, authorizes and deauthorizes, each call *)
(* being free to fail.                                                     *)
(***************************************************************************)
EXTENDS Integers, Sequences, FiniteSets, TLC

\* ---------------------------------------------------------------- bounds
MaxDesired == 2     \* longest desired list of the project spec
MaxRoleID  == 3     \* role ids the Atlas API hands out are 1..MaxRoleID
MaxEndpoints == 2   \* private endpoint ids are 1..MaxEndpoints

\* ------------------------------------------------------------ value sets
AWS    == "AWS"
ARNs   == {"arn1", "arn2"}
NoARN  == ""
NoDate == ""
SomeDate == "date"
NoRole == 0
RoleIDs == 1..MaxRoleID

\* status.CloudProviderIntegrationStatus* phase names
StatusNew                 == "NEW"
StatusCreated             == "CREATED"
StatusAuthorized          == "AUTHORIZED"
StatusDeAuthorize         == "DEAUTHORIZE"
StatusFailedToCreate      == "FAILED_TO_CREATE"
StatusFailedToAuthorize   == "FAILED_TO_AUTHORIZE"
StatusFailedToDeAuthorize == "FAILED_TO_DEAUTHORIZE"

\* workflow reasons used by the handlers
Internal                                  == "Internal"
AtlasDeletionProtection                   == "AtlasDeletionProtection"
ProjectCloudIntegrationsIsNotReadyInAtlas == "ProjectCloudIntegrationsIsNotReadyInAtlas"
AtlasGovUnsupported                       == "AtlasGovUnsupported"
AtlasAPIAccessNotConfigured               == "AtlasAPIAccessNotConfigured"

\* messages
MsgOwnership      == "unable to resolve ownership for deletion protection"
MsgCPIProtection  == "unable to reconcile Cloud Provider Integrations due to deletion protection being enabled"
MsgFedProtection  == "unable to reconcile FederatedAuthConfig due to deletion protection being enabled"
MsgListFailed     == "unable to fetch cloud provider access from Atlas"
MsgNotAllSynced   == "not all items were synchronized successfully"
MsgNotAllAuth     == "not all entries are authorized"
MsgDeprecated     == "The CloudProviderAccessRole has been deprecated, please move your configuration under CloudProviderIntegration."
MsgGovUnsupported == "the AtlasFederatedAuth is not supported by Atlas for government"
ApiError          == "api error"
JsonError         == "invalid character"

CloudProviderIntegrationReadyType == "CloudProviderIntegrationReady"
FederatedAuthReadyType            == "FederatedAuthReady"
ReadyType                         == "Ready"

\* --------------------------------------------------------- small helpers
Range(s) == {s[i] : i \in 1..Len(s)}

Min(S) == CHOOSE x \in S : \A y \in S : x <= y
Max(S) == CHOOSE x \in S : \A y \in S : x >= y

\* ------------------------------------------------------ workflow.Result
OK == [kind |-> "Ok", reason |-> "", message |-> "", retry |-> FALSE]

InProgress(reason, message) ==
  [kind |-> "InProgress", reason |-> reason, message |-> message, retry |-> TRUE]

Terminate(reason, message) ==
  [kind |-> "Terminate", reason |-> reason, message |-> message, retry |-> TRUE]

WithoutRetry(result) == [result EXCEPT !.retry = FALSE]

IsOk(result) == result.kind = "Ok"

NoResult == [kind |-> "None", reason |-> "", message |-> "", retry |-> FALSE]

\* ------------------------------------------------- condition publisher
\* One record per call made on the workflow context by a handler.
SetConditionFromResult(type, result) ==
  IF IsOk(result)
    THEN [type |-> type, op |-> "True", reason |-> "", message |-> ""]
    ELSE [type |-> type, op |-> "False", reason |-> result.reason, message |-> result.message]

SetConditionFalse(type) == [type |-> type, op |-> "False", reason |-> "", message |-> ""]

SetConditionTrueMsg(type, msg) == [type |-> type, op |-> "True", reason |-> "", message |-> msg]

UnsetCondition(type) == [type |-> type, op |-> "Unset", reason |-> "", message |-> ""]

\* ------------------------------------------------------- desired items
CloudProviderIntegration(arn) == [ProviderName |-> AWS, IamAssumedRoleArn |-> arn]

DesiredItems == {CloudProviderIntegration(a) : a \in ARNs \cup {NoARN}}

\* Desired lists: up to MaxDesired items, no ARN declared twice
DesiredLists ==
  {l \in UNION {[1..n -> DesiredItems] : n \in 0..MaxDesired} :
     \A i, j \in 1..Len(l) : (i < j /\ l[i].IamAssumedRoleArn # NoARN) => l[i] # l[j]}

\* AtlasProjectSpec: the deprecated field and the current one
ProjectSpec(roles, integrations) ==
  [CloudProviderAccessRoles |-> roles, CloudProviderIntegrations |-> integrations]

\* The project specs of the model: any desired list under the current field,
\* one under the deprecated field
ProjectSpecs ==
  {ProjectSpec(<<>>, d) : d \in DesiredLists} \cup
  {ProjectSpec(<<CloudProviderIntegration("arn1")>>, <<>>)}

getCloudProviderIntegrations(projectSpec) ==
  IF Len(projectSpec.CloudProviderAccessRoles) > 0
    THEN projectSpec.CloudProviderAccessRoles
    ELSE projectSpec.CloudProviderIntegrations

\* The last-applied-configuration annotation: absent, not parseable, or the
\* encoding of a project spec.
AnnotationAbsent    == [state |-> "absent",    config |-> ProjectSpec(<<>>, <<>>)]
AnnotationMalformed == [state |-> "malformed", config |-> ProjectSpec(<<>>, <<>>)]
AnnotationOf(projectSpec) == [state |-> "ok", config |-> projectSpec]

\* ---------------------------------------------------------- Atlas roles
\* CloudProviderAccessRole.FeatureUsages: a list of pointers, each nil or a
\* feature whose FeatureID is an interface{} value: nil, a string, or what
\* else the JSON of the response decodes to (an object)
NilID         == [kind |-> "nil", value |-> ""]
StringID(s)   == [kind |-> "string", value |-> s]
ObjectID      == [kind |-> "object", value |-> "bucket"]
NilFeature    == [null |-> TRUE, FeatureType |-> "", FeatureID |-> NilID]
FeatureUsage(type, id) == [null |-> FALSE, FeatureType |-> type, FeatureID |-> id]

Role(id, arn, date) ==
  [RoleID |-> id, ProviderName |-> AWS, IAMAssumedRoleARN |-> arn, AuthorizedDate |-> date,
   FeatureUsages |-> <<>>]

WithFeatureUsages(role, features) == [role EXCEPT !.FeatureUsages = features]

\* ------------------------------------------------------------- statuses
NewCloudProviderIntegration(providerName, assumedRoleArn) ==
  [ProviderName |-> providerName, IamAssumedRoleArn |-> assumedRoleArn,
   RoleID |-> NoRole, AuthorizedDate |-> NoDate,
   Status |-> StatusNew, ErrorMessage |-> "", FeatureUsages |-> <<>>]

Identifier(cpa) == cpa.ProviderName \o "." \o cpa.IamAssumedRoleArn

\* internal/set.Difference, by identifier
Difference(left, right) ==
  {Identifier(x) : x \in Range(left)} \ {Identifier(y) : y \in Range(right)}

\* ------------------------------------------------------------ Atlas API
\* CloudProviderAccess.ListRoles: the roles of the project, in the order the
\* API chooses (ascending or descending role id here), or an error.
RECURSIVE RolesAscending(_)
RolesAscending(roles) ==
  IF roles = {} THEN <<>>
  ELSE LET first == CHOOSE r \in roles : \A q \in roles : r.RoleID <= q.RoleID
       IN <<first>> \o RolesAscending(roles \ {first})

Reverse(s) == [i \in 1..Len(s) |-> s[Len(s) + 1 - i]]

ListRoles(roles, order, fails) ==
  IF fails THEN [err |-> TRUE, AWSIAMRoles |-> <<>>]
  ELSE [err |-> FALSE,
        AWSIAMRoles |-> IF order = "asc" THEN RolesAscending(roles)
                        ELSE Reverse(RolesAscending(roles))]

\* CloudProviderAccess.CreateRole: a new role without ARN under an unused id
\* (the lowest or the highest free one). The call fails when the response
\* says so, and when the project has no free role id left.
FreeIDs(roles) == RoleIDs \ {r.RoleID : r \in roles}

CreateRole(roles, providerName, response, pick) ==
  IF response = "fail" \/ FreeIDs(roles) = {}
    THEN [err |-> TRUE, role |-> Role(NoRole, NoARN, NoDate), roles |-> roles]
    ELSE LET id   == IF pick = "lo" THEN Min(FreeIDs(roles)) ELSE Max(FreeIDs(roles))
             role == Role(id, NoARN, IF response = "okAuth" THEN SomeDate ELSE NoDate)
         IN [err |-> FALSE, role |-> role, roles |-> roles \cup {role}]

\* CloudProviderAccess.AuthorizeRole: sets the ARN of the role with the given
\* id; the response carries an authorization date ("okAuth") or not ("ok").
AuthorizeRole(roles, roleID, providerName, arn, response) ==
  IF response = "fail" \/ ~ \E r \in roles : r.RoleID = roleID
    THEN [err |-> TRUE, role |-> Role(NoRole, NoARN, NoDate), roles |-> roles]
    ELSE LET old  == CHOOSE r \in roles : r.RoleID = roleID
             role == WithFeatureUsages(
                       Role(roleID, arn,
                            IF response = "okAuth" THEN SomeDate ELSE old.AuthorizedDate),
                       old.FeatureUsages)
         IN [err |-> FALSE, role |-> role, roles |-> (roles \ {old}) \cup {role}]

\* CloudProviderAccess.DeauthorizeRole: removes the role with the given id.
DeauthorizeRole(roles, providerName, roleID, response) ==
  IF response = "fail"
    THEN [err |-> TRUE, roles |-> roles]
    ELSE [err |-> FALSE, roles |-> {r \in roles : r.RoleID # roleID}]

\* The record kept of one mutating call of a pass.
Call(op, item, roleID, arn, ok) ==
  [op |-> op, item |-> item, roleID |-> roleID, arn |-> arn, ok |-> ok]

\* ---------------------------------------------------- ownership resolver
CloudProviderIntegrationIdentifiable(providerName, arn) ==
  [ProviderName |-> providerName, IamAssumedRoleArn |-> arn]

RECURSIVE AtlasList(_)
AtlasList(roles) ==
  IF roles = <<>> THEN <<>>
  ELSE LET r == Head(roles)
       IN (IF r.IAMAssumedRoleARN # NoARN
             THEN <<CloudProviderIntegrationIdentifiable(r.ProviderName, r.IAMAssumedRoleARN)>>
             ELSE <<>>) \o AtlasList(Tail(roles))

\* Faulty variant: the second comparison is left out, so that any remote
\* role unknown to the last-applied configuration denies the pass.
canReconcileWithoutCurrent(isProtected, annotation, list, projectSpec) ==
  IF ~isProtected THEN [can |-> TRUE, err |-> ""]
  ELSE IF annotation.state = "malformed" THEN [can |-> FALSE, err |-> JsonError]
  ELSE IF list.err THEN [can |-> FALSE, err |-> ApiError]
  ELSE [can |-> \/ Len(AtlasList(list.AWSIAMRoles)) = 0
                \/ Cardinality(Difference(
                     AtlasList(list.AWSIAMRoles),
                     getCloudProviderIntegrations(annotation.config))) = 0,
        err |-> ""]

\* Faulty variant: only the desired items are compared with the remote
\* ones, an empty remote list and the last-applied configuration are ignored.
canReconcileCurrentOnly(isProtected, annotation, list, projectSpec) ==
  IF ~isProtected THEN [can |-> TRUE, err |-> ""]
  ELSE IF annotation.state = "malformed" THEN [can |-> FALSE, err |-> JsonError]
  ELSE IF list.err THEN [can |-> FALSE, err |-> ApiError]
  ELSE [can |-> Cardinality(Difference(getCloudProviderIntegrations(projectSpec),
                                       AtlasList(list.AWSIAMRoles))) = 0,
        err |-> ""]

canCloudProviderIntegrationReconcile(isProtected, annotation, list, projectSpec) ==
  IF ~isProtected THEN [can |-> TRUE, err |-> ""]
  ELSE IF annotation.state = "malformed" THEN [can |-> FALSE, err |-> JsonError]
  ELSE IF list.err THEN [can |-> FALSE, err |-> ApiError]
  ELSE LET latestConfig   == annotation.config
           atlasList      == AtlasList(list.AWSIAMRoles)
           akoLastList    == getCloudProviderIntegrations(latestConfig)
           akoCurrentList == getCloudProviderIntegrations(projectSpec)
       IN IF Len(atlasList) = 0 THEN [can |-> TRUE, err |-> ""]
          ELSE IF Cardinality(Difference(atlasList, akoLastList)) = 0
                 THEN [can |-> TRUE, err |-> ""]
          ELSE [can |-> Cardinality(Difference(akoCurrentList, atlasList)) = 0, err |-> ""]

\* ------------------------------------------------------------ enrichment
\* Faulty variant: the roles are taken in the order ListRoles gave them.
sortNothing(atlasCPAs) == atlasCPAs

RECURSIVE sortAtlasCPAsByRoleID(_)
sortAtlasCPAsByRoleID(atlasCPAs) ==
  IF atlasCPAs = <<>> THEN <<>>
  ELSE LET i == CHOOSE k \in 1..Len(atlasCPAs) :
                  \A j \in 1..Len(atlasCPAs) : atlasCPAs[k].RoleID <= atlasCPAs[j].RoleID
           rest == [j \in 1..(Len(atlasCPAs) - 1) |->
                      IF j < i THEN atlasCPAs[j] ELSE atlasCPAs[j + 1]]
       IN <<atlasCPAs[i]>> \o sortAtlasCPAsByRoleID(rest)

\* Faulty variant: the ARN of the Atlas role is not compared.
isMatchNever(cpaSpec, atlasCPA) == FALSE

isMatch(cpaSpec, atlasCPA) ==
  /\ atlasCPA.IAMAssumedRoleARN # NoARN
  /\ cpaSpec.IamAssumedRoleArn # NoARN
  /\ atlasCPA.ProviderName = cpaSpec.ProviderName
  /\ atlasCPA.IAMAssumedRoleARN = cpaSpec.IamAssumedRoleArn

\* Faulty variant: every status that takes over a role counts as authorized.
copyMarkingAuthorized(cpiStatus, atlasCPA) ==
  [cpiStatus EXCEPT
     !.RoleID = atlasCPA.RoleID,
     !.AuthorizedDate = atlasCPA.AuthorizedDate,
     !.Status = StatusAuthorized]

\* Faulty variant: the authorization date of the role is not looked at.
copyWithoutAuthorizedDate(cpiStatus, atlasCPA) ==
  [cpiStatus EXCEPT
     !.RoleID = atlasCPA.RoleID,
     !.Status = StatusCreated]

\* line 252: feature.FeatureID.(string) panics on a value that is no string;
\* the panic is carried in the place of the identifier
PanicInterfaceConversion == "panic: interface conversion: interface {} is not string"

AssertString(v) == IF v.kind = "string" THEN v.value ELSE PanicInterfaceConversion

\* lines 242-259: the loop over atlasCPA.FeatureUsages
RECURSIVE CopiedFeatureUsages(_)
CopiedFeatureUsages(features) ==
  IF features = <<>> THEN <<>>
  ELSE (IF Head(features).null THEN <<>>
        ELSE <<[FeatureID   |-> IF Head(features).FeatureID.kind # "nil"
                                  THEN AssertString(Head(features).FeatureID) ELSE "",
                FeatureType |-> Head(features).FeatureType]>>)
         \o CopiedFeatureUsages(Tail(features))

copyCloudProviderAccessData(cpiStatus, atlasCPA) ==
  [cpiStatus EXCEPT
     !.RoleID = atlasCPA.RoleID,
     !.AuthorizedDate = atlasCPA.AuthorizedDate,
     !.Status = IF atlasCPA.AuthorizedDate # NoDate THEN StatusAuthorized ELSE StatusCreated,
     !.FeatureUsages = IF Len(atlasCPA.FeatureUsages) > 0
                         THEN CopiedFeatureUsages(atlasCPA.FeatureUsages) ELSE @]

\* the pass panicked while it built these statuses
Panicked(cpiStatuses) ==
  \E i \in 1..Len(cpiStatuses) : \E k \in 1..Len(cpiStatuses[i].FeatureUsages) :
    cpiStatuses[i].FeatureUsages[k].FeatureID = PanicInterfaceConversion

initiateStatuses(cpiSpecs) ==
  [i \in 1..Len(cpiSpecs) |->
     NewCloudProviderIntegration(cpiSpecs[i].ProviderName, cpiSpecs[i].IamAssumedRoleArn)]

\* first loop of enrichStatuses: every role that matches is copied in turn
RECURSIVE CopyMatches(_, _)
CopyMatches(cpiStatus, atlasCPAs) ==
  IF atlasCPAs = <<>> THEN cpiStatus
  ELSE CopyMatches(IF isMatch(cpiStatus, Head(atlasCPAs))
                     THEN copyCloudProviderAccessData(cpiStatus, Head(atlasCPAs))
                     ELSE cpiStatus,
                   Tail(atlasCPAs))

ConfiguredMatches(cpiStatuses, atlasCPAs) ==
  [i \in 1..Len(cpiStatuses) |-> CopyMatches(cpiStatuses[i], atlasCPAs)]

\* Faulty variant: the roles without ARN are not collected.
NoMatchNone(atlasCPAs) == <<>>

\* second loop: the roles without ARN
RECURSIVE NoMatch(_)
NoMatch(atlasCPAs) ==
  IF atlasCPAs = <<>> THEN <<>>
  ELSE (IF Head(atlasCPAs).IAMAssumedRoleARN = NoARN THEN <<Head(atlasCPAs)>> ELSE <<>>)
         \o NoMatch(Tail(atlasCPAs))

\* Faulty variant: no status claims a role without ARN.
ClaimNothing(cpiStatuses, i, noMatch) ==
  [statuses |-> cpiStatuses, noMatch |-> noMatch]

\* Faulty variant: the statuses claim the roles without ARN from the end of
\* the list.
RECURSIVE ClaimNoMatchFromEnd(_, _, _)
ClaimNoMatchFromEnd(cpiStatuses, i, noMatch) ==
  IF i > Len(cpiStatuses) THEN [statuses |-> cpiStatuses, noMatch |-> noMatch]
  ELSE IF cpiStatuses[i].IamAssumedRoleArn # NoARN /\ cpiStatuses[i].RoleID # NoRole
         THEN ClaimNoMatchFromEnd(cpiStatuses, i + 1, noMatch)
  ELSE IF Len(noMatch) = 0 THEN [statuses |-> cpiStatuses, noMatch |-> noMatch]
  ELSE ClaimNoMatchFromEnd(
         SubSeq(cpiStatuses, 1, i - 1)
           \o <<copyCloudProviderAccessData(cpiStatuses[i], noMatch[Len(noMatch)])>>
           \o SubSeq(cpiStatuses, i + 1, Len(cpiStatuses)),
         i + 1, SubSeq(noMatch, 1, Len(noMatch) - 1))

\* third loop: statuses not yet linked claim the roles without ARN in order;
\* yields the statuses and the roles left unclaimed
RECURSIVE ClaimNoMatch(_, _, _)
ClaimNoMatch(cpiStatuses, i, noMatch) ==
  IF i > Len(cpiStatuses) THEN [statuses |-> cpiStatuses, noMatch |-> noMatch]
  ELSE IF cpiStatuses[i].IamAssumedRoleArn # NoARN /\ cpiStatuses[i].RoleID # NoRole
         THEN ClaimNoMatch(cpiStatuses, i + 1, noMatch)
  ELSE IF Len(noMatch) = 0 THEN [statuses |-> cpiStatuses, noMatch |-> noMatch]
  ELSE ClaimNoMatch(
         SubSeq(cpiStatuses, 1, i - 1)
           \o <<copyCloudProviderAccessData(cpiStatuses[i], Head(noMatch))>>
           \o SubSeq(cpiStatuses, i + 1, Len(cpiStatuses)),
         i + 1, Tail(noMatch))

\* keys of cpiStatusesMap
StatusKeys(cpiStatuses) ==
  {Identifier(s) : s \in {t \in Range(cpiStatuses) : t.IamAssumedRoleArn # NoARN}}

DeleteStatus(cpa) ==
  [copyCloudProviderAccessData(
     NewCloudProviderIntegration(cpa.ProviderName, cpa.IAMAssumedRoleARN), cpa)
   EXCEPT !.Status = StatusDeAuthorize]

\* Faulty variant: no role is marked for removal.
RemovalsNone(atlasCPAs, keys) == <<>>

\* Faulty variant: every role with an ARN is marked for removal, whether a
\* status carries its ARN or not.
RECURSIVE RemovalsOfEveryRole(_, _)
RemovalsOfEveryRole(atlasCPAs, keys) ==
  IF atlasCPAs = <<>> THEN <<>>
  ELSE (IF Head(atlasCPAs).IAMAssumedRoleARN # NoARN
          THEN <<DeleteStatus(Head(atlasCPAs))>> ELSE <<>>)
         \o RemovalsOfEveryRole(Tail(atlasCPAs), keys)

\* fourth loop: roles with an ARN that no status carries
RECURSIVE Removals(_, _)
Removals(atlasCPAs, keys) ==
  IF atlasCPAs = <<>> THEN <<>>
  ELSE LET cpa == Head(atlasCPAs)
       IN (IF cpa.IAMAssumedRoleARN # NoARN /\
              (cpa.ProviderName \o "." \o cpa.IAMAssumedRoleARN) \notin keys
             THEN <<DeleteStatus(cpa)>> ELSE <<>>) \o Removals(Tail(atlasCPAs), keys)

enrichStatuses(cpiStatuses, atlasCPAs) ==
  LET configured == ConfiguredMatches(cpiStatuses, atlasCPAs)
      claimed    == ClaimNoMatch(configured, 1, NoMatch(atlasCPAs))
      removals   == Removals(atlasCPAs, StatusKeys(claimed.statuses))
      leftovers  == [i \in 1..Len(claimed.noMatch) |-> DeleteStatus(claimed.noMatch[i])]
  IN claimed.statuses \o removals \o leftovers

\* ------------------------------------------------------- per-item calls
\* Faulty variant: a failed CreateRole leaves the phase as it was.
CreatedKeepingPhase(cpiStatus, i, res) ==
  IF res.err
    THEN [status |-> [cpiStatus EXCEPT !.ErrorMessage = ApiError],
          roles  |-> res.roles,
          call   |-> Call("CreateRole", i, NoRole, NoARN, FALSE)]
    ELSE [status |-> copyCloudProviderAccessData(cpiStatus, res.role),
          roles  |-> res.roles,
          call   |-> Call("CreateRole", i, res.role.RoleID, NoARN, TRUE)]

\* Each yields the status after the call, the roles Atlas then holds and the
\* record of the call.
Created(cpiStatus, i, res) ==
  IF res.err
    THEN [status |-> [cpiStatus EXCEPT !.Status = StatusFailedToCreate,
                                       !.ErrorMessage = ApiError],
          roles  |-> res.roles,
          call   |-> Call("CreateRole", i, NoRole, NoARN, FALSE)]
    ELSE [status |-> copyCloudProviderAccessData(cpiStatus, res.role),
          roles  |-> res.roles,
          call   |-> Call("CreateRole", i, res.role.RoleID, NoARN, TRUE)]

createCloudProviderAccess(roles, cpiStatus, i, response, pick) ==
  Created(cpiStatus, i, CreateRole(roles, cpiStatus.ProviderName, response, pick))

Authorized(cpiStatus, i, res) ==
  IF res.err
    THEN [status |-> [cpiStatus EXCEPT !.Status = StatusFailedToAuthorize,
                                       !.ErrorMessage = ApiError],
          roles  |-> res.roles,
          call   |-> Call("AuthorizeRole", i, cpiStatus.RoleID,
                          cpiStatus.IamAssumedRoleArn, FALSE)]
    ELSE [status |-> copyCloudProviderAccessData(cpiStatus, res.role),
          roles  |-> res.roles,
          call   |-> Call("AuthorizeRole", i, cpiStatus.RoleID,
                          cpiStatus.IamAssumedRoleArn, TRUE)]

authorizeCloudProviderAccess(roles, cpiStatus, i, response) ==
  Authorized(cpiStatus, i,
             AuthorizeRole(roles, cpiStatus.RoleID, cpiStatus.ProviderName,
                           cpiStatus.IamAssumedRoleArn, response))

Deleted(cpiStatus, i, res) ==
  IF res.err
    THEN [status |-> [cpiStatus EXCEPT !.Status = StatusFailedToDeAuthorize,
                                       !.ErrorMessage = ApiError],
          roles  |-> res.roles,
          call   |-> Call("DeauthorizeRole", i, cpiStatus.RoleID,
                          cpiStatus.IamAssumedRoleArn, FALSE)]
    ELSE [status |-> cpiStatus,
          roles  |-> res.roles,
          call   |-> Call("DeauthorizeRole", i, cpiStatus.RoleID,
                          cpiStatus.IamAssumedRoleArn, TRUE)]

deleteCloudProviderAccess(roles, cpiStatus, i, response) ==
  Deleted(cpiStatus, i,
          DeauthorizeRole(roles, cpiStatus.ProviderName, cpiStatus.RoleID, response))

\* ------------------------------------------------------------- sync loop
\* Faulty variant: an item whose call failed is not appended to
\* cpiStatusesToUpdate.
CalledAndKeptIfOk(acc, r) ==
  [roles     |-> r.roles,
   toUpdate  |-> IF r.call.ok THEN Append(acc.toUpdate, r.status) ELSE acc.toUpdate,
   calls     |-> Append(acc.calls, r.call),
   withError |-> acc.withError \/ r.status.ErrorMessage # ""]

\* The loop of syncCloudProviderIntegration carries: the roles in Atlas,
\* cpiStatusesToUpdate, the calls made and withError.
\* The item was handed to a call and is appended to cpiStatusesToUpdate
CalledAndKept(acc, r) ==
  [roles     |-> r.roles,
   toUpdate  |-> Append(acc.toUpdate, r.status),
   calls     |-> Append(acc.calls, r.call),
   withError |-> acc.withError \/ r.status.ErrorMessage # ""]

\* Faulty variant: an item handed to deleteCloudProviderAccess is appended to
\* cpiStatusesToUpdate like the others.
CalledAndAppended(acc, r) ==
  [roles     |-> r.roles,
   toUpdate  |-> Append(acc.toUpdate, r.status),
   calls     |-> Append(acc.calls, r.call),
   withError |-> acc.withError \/ r.status.ErrorMessage # ""]

\* The item was handed to deleteCloudProviderAccess and is not appended
CalledAndDropped(acc, r) ==
  [roles     |-> r.roles,
   toUpdate  |-> acc.toUpdate,
   calls     |-> Append(acc.calls, r.call),
   withError |-> acc.withError \/ r.status.ErrorMessage # ""]

\* No call was made for the item; it is appended as it is
Kept(acc, cpiStatus) ==
  [roles     |-> acc.roles,
   toUpdate  |-> Append(acc.toUpdate, cpiStatus),
   calls     |-> acc.calls,
   withError |-> acc.withError \/ cpiStatus.ErrorMessage # ""]

\* Faulty variant: AuthorizeRole is called whether the item has an ARN or not.
SyncItemAuthorizingWithoutARN(cpiStatus, i, response, pick, acc) ==
  IF cpiStatus.Status \in {StatusNew, StatusFailedToCreate}
    THEN CalledAndKept(acc, createCloudProviderAccess(acc.roles, cpiStatus, i, response, pick))
  ELSE IF cpiStatus.Status \in {StatusCreated, StatusFailedToAuthorize}
    THEN CalledAndKept(acc, authorizeCloudProviderAccess(acc.roles, cpiStatus, i, response))
  ELSE IF cpiStatus.Status \in {StatusDeAuthorize, StatusFailedToDeAuthorize}
    THEN CalledAndDropped(acc, deleteCloudProviderAccess(acc.roles, cpiStatus, i, response))
  ELSE IF cpiStatus.Status = StatusAuthorized
    THEN Kept(acc, cpiStatus)
  ELSE [acc EXCEPT !.withError = @ \/ cpiStatus.ErrorMessage # ""]

\* One iteration of the loop, over item i
SyncItem(cpiStatus, i, response, pick, acc) ==
  IF cpiStatus.Status \in {StatusNew, StatusFailedToCreate}
    THEN CalledAndKept(acc, createCloudProviderAccess(acc.roles, cpiStatus, i, response, pick))
  ELSE IF cpiStatus.Status \in {StatusCreated, StatusFailedToAuthorize}
    THEN IF cpiStatus.IamAssumedRoleArn # NoARN
           THEN CalledAndKept(acc, authorizeCloudProviderAccess(acc.roles, cpiStatus, i, response))
           ELSE Kept(acc, cpiStatus)
  ELSE IF cpiStatus.Status \in {StatusDeAuthorize, StatusFailedToDeAuthorize}
    THEN CalledAndDropped(acc, deleteCloudProviderAccess(acc.roles, cpiStatus, i, response))
  ELSE IF cpiStatus.Status = StatusAuthorized
    THEN Kept(acc, cpiStatus)
  ELSE [acc EXCEPT !.withError = @ \/ cpiStatus.ErrorMessage # ""]

RECURSIVE SyncLoop(_, _, _, _, _)
SyncLoop(cpiStatuses, i, responses, pick, acc) ==
  IF i > Len(cpiStatuses) THEN acc
  ELSE SyncLoop(cpiStatuses, i + 1, responses, pick,
                SyncItem(cpiStatuses[i], i, responses[i], pick, acc))

\* Faulty variant: one authorized item is enough.
SomeAuthorized(cpiStatusesToUpdate) ==
  \E i \in 1..Len(cpiStatusesToUpdate) : cpiStatusesToUpdate[i].Status = StatusAuthorized

AllAuthorized(cpiStatusesToUpdate) ==
  \A i \in 1..Len(cpiStatusesToUpdate) : cpiStatusesToUpdate[i].Status = StatusAuthorized

\* Faulty variant: the items are compared with Authorized before withError
\* is looked at.
AfterLoopAuthorizedFirst(out) ==
  [allAuthorized |-> \A i \in 1..Len(out.toUpdate) : out.toUpdate[i].Status = StatusAuthorized,
   err           |-> IF out.withError
                          /\ \E i \in 1..Len(out.toUpdate) :
                               out.toUpdate[i].Status # StatusAuthorized
                       THEN MsgNotAllSynced ELSE "",
   looped        |-> TRUE,
   panic         |-> Panicked(out.toUpdate),
   roles         |-> out.roles,
   toUpdate      |-> out.toUpdate,
   calls         |-> out.calls]

\* what syncCloudProviderIntegration does once the loop is over
AfterLoop(out) ==
  [allAuthorized |-> ~out.withError /\ AllAuthorized(out.toUpdate),
   err           |-> IF out.withError THEN MsgNotAllSynced ELSE "",
   looped        |-> TRUE,
   panic         |-> Panicked(out.toUpdate),
   roles         |-> out.roles,
   toUpdate      |-> out.toUpdate,
   calls         |-> out.calls]

\* lines 75-99: the loop over the enriched statuses; a panic in
\* enrichStatuses ends the pass before the first call
LoopOver(roles, cpiStatuses, responses, pick) ==
  IF Panicked(cpiStatuses)
    THEN [allAuthorized |-> FALSE, err |-> "", looped |-> FALSE, panic |-> TRUE,
          roles |-> roles, toUpdate |-> <<>>, calls |-> <<>>]
    ELSE AfterLoop(
           SyncLoop(cpiStatuses, 1, responses, pick,
                    [roles |-> roles, toUpdate |-> <<>>, calls |-> <<>>,
                     withError |-> FALSE]))

\* syncCloudProviderIntegration: (allAuthorized, err), with the statuses
\* handed to EnsureStatusOption when the loop ran (looped), the roles Atlas
\* holds afterwards and the calls made.
syncCloudProviderIntegration(roles, cpaSpecs, list, responses, pick) ==
  IF list.err
    THEN [allAuthorized |-> FALSE, err |-> MsgListFailed, looped |-> FALSE,
          panic |-> FALSE, roles |-> roles, toUpdate |-> <<>>, calls |-> <<>>]
    ELSE LoopOver(roles,
                  enrichStatuses(initiateStatuses(cpaSpecs),
                                 sortAtlasCPAsByRoleID(list.AWSIAMRoles)),
                  responses, pick)

\* ------------------------------------- ensureCloudProviderIntegration
\* in: the responses of the Atlas API during the pass
\*   gateListFails, syncListFails : the two ListRoles calls fail
\*   order                        : order in which ListRoles lists the roles
\*   responses[i]                 : response to the call made for item i
\*   pick                         : which free id CreateRole hands out
\* Yields the result, the resolver's answer (gate), how far the pass got
\* (stage), the condition calls, and the statuses, roles and calls after it.

\* Variant: the result of a denied pass marked WithoutRetry.
DeletionProtectionWithoutRetry ==
  WithoutRetry(Terminate(AtlasDeletionProtection, MsgCPIProtection))

\* lines 27-31: the result of a pass the resolver denies
DeletionProtectionResult == Terminate(AtlasDeletionProtection, MsgCPIProtection)

\* lines 20-21: the result of a pass whose resolver returned an error
OwnershipErrorResult(err) == Terminate(Internal, MsgOwnership \o ": " \o err)

\* Faulty variant: the condition is always set from the result.
NotSyncedConditionFromResult(answer, result, cond, roleStatuses, roles) ==
  [gate |-> answer,
   stage |-> IF IsOk(result) THEN "empty" ELSE "resolver",
   result |-> result,
   conds |-> <<SetConditionFromResult(CloudProviderIntegrationReadyType, result)>>,
   statuses |-> roleStatuses, roles |-> roles, calls |-> <<>>]

\* a pass that returned before syncCloudProviderIntegration
NotSynced(answer, result, cond, roleStatuses, roles) ==
  [gate |-> answer,
   stage |-> IF IsOk(result) THEN "empty" ELSE "resolver",
   result |-> result, conds |-> <<cond>>,
   statuses |-> roleStatuses, roles |-> roles, calls |-> <<>>]

\* Faulty variant: the statuses are replaced even when the loop did not run.
SyncedAlwaysStored(result, cond, roleStatuses, sync) ==
  [gate |-> "permitted",
   stage |-> IF sync.looped THEN "loop" ELSE "list",
   result |-> result, conds |-> <<cond>>,
   statuses |-> sync.toUpdate,
   roles |-> sync.roles, calls |-> sync.calls]

\* Faulty variant: an empty status list is not stored, the statuses the
\* pass found stay.
SyncedKeepingPrior(result, cond, roleStatuses, sync) ==
  [gate |-> "permitted",
   stage |-> IF sync.looped THEN "loop" ELSE "list",
   result |-> result, conds |-> <<cond>>,
   statuses |-> IF sync.looped /\ sync.toUpdate # <<>> THEN sync.toUpdate ELSE roleStatuses,
   roles |-> sync.roles, calls |-> sync.calls]

\* a pass that called syncCloudProviderIntegration
Synced(result, cond, roleStatuses, sync) ==
  [gate |-> "permitted",
   stage |-> IF sync.looped THEN "loop" ELSE "list",
   result |-> result, conds |-> <<cond>>,
   statuses |-> IF sync.looped THEN sync.toUpdate ELSE roleStatuses,
   roles |-> sync.roles, calls |-> sync.calls]

\* A pass that panicked returns no Result: no condition is set and no status
\* is stored.
PanicResult ==
  [kind |-> "Panic", reason |-> "", message |-> PanicInterfaceConversion, retry |-> FALSE]

Crashed(roleStatuses, sync) ==
  [gate |-> "permitted", stage |-> "panic", result |-> PanicResult, conds |-> <<>>,
   statuses |-> roleStatuses, roles |-> sync.roles, calls |-> sync.calls]

\* Faulty variant: a pass whose items are not all authorized sets no
\* condition.
AfterSyncSilentInProgress(projectSpec, roleStatuses, sync) ==
  IF sync.panic THEN Crashed(roleStatuses, sync)
  ELSE IF sync.err # ""
    THEN Synced(Terminate(ProjectCloudIntegrationsIsNotReadyInAtlas, sync.err),
                SetConditionFromResult(
                  CloudProviderIntegrationReadyType,
                  Terminate(ProjectCloudIntegrationsIsNotReadyInAtlas, sync.err)),
                roleStatuses, sync)
  ELSE IF ~sync.allAuthorized
    THEN Synced(InProgress(ProjectCloudIntegrationsIsNotReadyInAtlas, MsgNotAllAuth),
                UnsetCondition(CloudProviderIntegrationReadyType),
                roleStatuses, sync)
  ELSE Synced(OK,
              SetConditionTrueMsg(CloudProviderIntegrationReadyType,
                                  IF Len(projectSpec.CloudProviderAccessRoles) > 0
                                    THEN MsgDeprecated ELSE ""),
              roleStatuses, sync)

\* lines 45-66: the result of the pass from what the sync returned
AfterSync(projectSpec, roleStatuses, sync) ==
  IF sync.panic THEN Crashed(roleStatuses, sync)
  ELSE IF sync.err # ""
    THEN Synced(Terminate(ProjectCloudIntegrationsIsNotReadyInAtlas, sync.err),
                SetConditionFromResult(
                  CloudProviderIntegrationReadyType,
                  Terminate(ProjectCloudIntegrationsIsNotReadyInAtlas, sync.err)),
                roleStatuses, sync)
  ELSE IF ~sync.allAuthorized
    THEN Synced(InProgress(ProjectCloudIntegrationsIsNotReadyInAtlas, MsgNotAllAuth),
                SetConditionFalse(CloudProviderIntegrationReadyType),
                roleStatuses, sync)
  ELSE Synced(OK,
              SetConditionTrueMsg(CloudProviderIntegrationReadyType,
                                  IF Len(projectSpec.CloudProviderAccessRoles) > 0
                                    THEN MsgDeprecated ELSE ""),
              roleStatuses, sync)

\* Faulty variant: a denial of the resolver is not looked at.
ResolvedIgnoringDenial(can) ==
  IF can.err # "" THEN "error" ELSE "permitted"

\* lines 19-35: what the pass makes of the answer of the resolver
Resolved(can) ==
  IF can.err # "" THEN "error" ELSE IF ~can.can THEN "denied" ELSE "permitted"

ensureCloudProviderIntegration(isProtected, projectSpec, ann, roleStatuses, roles, in) ==
  LET can == canCloudProviderIntegrationReconcile(
               isProtected, ann, ListRoles(roles, in.order, in.gateListFails), projectSpec)
  IN IF Resolved(can) = "error"
       THEN NotSynced("error", OwnershipErrorResult(can.err),
                      SetConditionFromResult(CloudProviderIntegrationReadyType,
                                             OwnershipErrorResult(can.err)),
                      roleStatuses, roles)
     ELSE IF Resolved(can) = "denied"
       THEN NotSynced("denied", DeletionProtectionResult,
                      SetConditionFromResult(CloudProviderIntegrationReadyType,
                                             DeletionProtectionResult),
                      roleStatuses, roles)
     ELSE IF Len(getCloudProviderIntegrations(projectSpec)) = 0 /\ Len(roleStatuses) = 0
       THEN NotSynced("permitted", OK, UnsetCondition(CloudProviderIntegrationReadyType),
                      roleStatuses, roles)
     ELSE AfterSync(projectSpec, roleStatuses,
                    syncCloudProviderIntegration(
                      roles, getCloudProviderIntegrations(projectSpec),
                      ListRoles(roles, in.order, in.syncListFails),
                      in.responses, in.pick))

\* ------------------------------------------------------------ the state
VARIABLES
  resource,       \* kind of custom resource this behaviour reconciles
  protected,      \* deletion protection flag of the operator
  spec,           \* AtlasProject.Spec
  annotation,     \* last-applied-configuration annotation of the project
  atlasRoles,     \* cloud provider access roles held by Atlas
  statuses,       \* AtlasProject.Status.CloudProviderIntegrations
  \* record of the handler invocation that ran last
  handler, gate, stage, result, calls, conds,
  priorStatuses,  \* the statuses the invocation found
  priorRoles,     \* the roles Atlas held when the invocation started
  atlasEndpoints, \* data federation private endpoints held by Atlas
  listedPEs,      \* the endpoints the invocation got from GetAllPrivateEndpoints
  creationOrder,  \* ids of the roles held by Atlas, the earliest created first
  priorOrder      \* creationOrder when the invocation started

vars == <<resource, protected, spec, annotation, atlasRoles, statuses,
          handler, gate, stage, result, calls, conds, priorStatuses, priorRoles,
          atlasEndpoints, listedPEs, creationOrder, priorOrder>>

projectVars == <<protected, spec, annotation, atlasRoles, statuses>>

EnsureName    == "ensureCloudProviderIntegration"
ReconcileName == "AtlasFederatedAuthReconciler.Reconcile"

\* The order in which Atlas created the roles it holds. CreateRole hands out
\* the id (part_000:265, 230); the roles of a project the operator has not
\* seen yet count as created in the order of their ids.
RECURSIVE CreatedBefore(_)
CreatedBefore(roles) ==
  IF roles = {} THEN <<>>
  ELSE LET id == Min({r.RoleID : r \in roles})
       IN <<id>> \o CreatedBefore({r \in roles : r.RoleID # id})

\* the ids of an order whose roles Atlas still holds
RECURSIVE StillHeld(_, _)
StillHeld(order, roles) ==
  IF order = <<>> THEN <<>>
  ELSE (IF \E r \in roles : r.RoleID = Head(order) THEN <<Head(order)>> ELSE <<>>)
         \o StillHeld(Tail(order), roles)

\* the ids of the roles the CreateRole calls of a pass created, in call order
RECURSIVE CreatedIn(_)
CreatedIn(cs) ==
  IF cs = <<>> THEN <<>>
  ELSE (IF Head(cs).op = "CreateRole" /\ Head(cs).ok THEN <<Head(cs).roleID>> ELSE <<>>)
         \o CreatedIn(Tail(cs))

\* Roles Atlas may hold before the operator first sees the project
InitialRoles == {Role(1, "arn1", SomeDate), Role(2, "arn2", SomeDate)}

\* Configurations the annotation may encode
LastAppliedLists ==
  {<<CloudProviderIntegration("arn1")>>,
   <<CloudProviderIntegration("arn1"), CloudProviderIntegration("arn2")>>}

Annotations ==
  {AnnotationAbsent, AnnotationMalformed} \cup
  {AnnotationOf(ProjectSpec(<<>>, l)) : l \in LastAppliedLists}

Init ==
  /\ resource \in {"AtlasProject", "AtlasFederatedAuth"}
  /\ protected \in BOOLEAN
  /\ IF resource = "AtlasProject"
       THEN /\ spec \in ProjectSpecs
            /\ annotation \in (IF protected THEN Annotations
                               ELSE {AnnotationAbsent, AnnotationMalformed})
            /\ atlasRoles \in SUBSET InitialRoles
       ELSE /\ spec = ProjectSpec(<<>>, <<>>)
            /\ annotation = AnnotationAbsent
            /\ atlasRoles = {}
  /\ statuses = <<>>
  /\ handler = "none" /\ gate = "none" /\ stage = "none" /\ result = NoResult
  /\ calls = <<>> /\ conds = <<>> /\ priorStatuses = <<>> /\ priorRoles = {}
  /\ atlasEndpoints = {} /\ listedPEs = <<>>
  /\ creationOrder = CreatedBefore(atlasRoles) /\ priorOrder = <<>>

\* ------------------------------------------------------------- actions
Responses == {"fail", "ok", "okAuth"}

\* Responses that differ in effect for an item in the given phase; a role
\* that CreateRole returns has not been authorized
ResponsesOf(cpiStatus) ==
  IF cpiStatus.Status = StatusNew THEN {"fail", "ok"}
  ELSE IF cpiStatus.Status = StatusCreated /\ cpiStatus.IamAssumedRoleArn # NoARN THEN Responses
  ELSE IF cpiStatus.Status = StatusDeAuthorize THEN {"fail", "ok"}
  ELSE {"ok"}

ResponseFunctions(expected) ==
  {r \in [1..Len(expected) -> Responses] :
     \A i \in 1..Len(expected) : r[i] \in ResponsesOf(expected[i])}

AllOk(expected) == [i \in 1..Len(expected) |-> "ok"]

PassInput(gateListFails, syncListFails, order, responses, pick) ==
  [gateListFails |-> gateListFails, syncListFails |-> syncListFails,
   order |-> order, responses |-> responses, pick |-> pick]

\* What the Atlas API may answer during a pass from the current state. Inputs
\* that cannot differ in effect are left out: a failed ListRoles call ends
\* the pass, the resolver lists the roles only under deletion protection.
PassInputs ==
  LET expected == enrichStatuses(initiateStatuses(getCloudProviderIntegrations(spec)),
                                 RolesAscending(atlasRoles))
      orders   == IF Cardinality(atlasRoles) < 2 THEN {"asc"} ELSE {"asc", "desc"}
      picks    == IF \E i \in 1..Len(expected) : expected[i].Status = StatusNew
                    THEN {"lo", "hi"} ELSE {"lo"}
  IN {PassInput(FALSE, FALSE, o, r, p) :
        o \in orders, r \in ResponseFunctions(expected), p \in picks}
     \cup {PassInput(FALSE, TRUE, "asc", AllOk(expected), "lo")}
     \cup (IF protected THEN {PassInput(TRUE, FALSE, "asc", AllOk(expected), "lo")} ELSE {})

\* A pass leaves its outcome in the state
Publish(out) ==
  /\ handler' = EnsureName
  /\ gate' = out.gate
  /\ stage' = out.stage
  /\ result' = out.result
  /\ calls' = out.calls
  /\ conds' = out.conds
  /\ priorStatuses' = statuses
  /\ priorRoles' = atlasRoles
  /\ statuses' = out.statuses
  /\ atlasRoles' = out.roles
  /\ priorOrder' = creationOrder
  /\ creationOrder' = StillHeld(creationOrder, out.roles) \o CreatedIn(out.calls)

\* One reconciliation pass of the project controller over the cloud provider
\* integrations.
Pass ==
  /\ resource = "AtlasProject"
  /\ \E in \in PassInputs :
       Publish(ensureCloudProviderIntegration(protected, spec, annotation,
                                              statuses, atlasRoles, in))
  /\ UNCHANGED <<resource, protected, spec, annotation, atlasEndpoints, listedPEs>>

\* --------------------------------- AtlasFederatedAuthReconciler.Reconcile
\* in: what the collaborators of the handler answer
\*   prepare      : result of customresource.PrepareResource
\*   skip         : the resource carries the skip-reconciliation annotation
\*   deleting     : the resource has a deletion timestamp
\*   finalizerErr : ManageFinalizer fails
\*   version      : result of customresource.ValidateResourceVersion
\*   supported    : AtlasProvider.IsResourceSupported
\*   clientErr    : AtlasProvider.SdkClient fails
\*   owner, ownerErr : what customresource.IsOwner returns
\*   ensure       : result of ensureFederatedAuth
\* Yields the result, how far the handler got (stage), the answer of the
\* ownership check (gate), the condition calls and the steps taken.
Step(op) == Call(op, 0, NoRole, NoARN, TRUE)

FedDeletionProtectionResult == Terminate(AtlasDeletionProtection, MsgFedProtection)

UnsupportedResult == WithoutRetry(Terminate(AtlasGovUnsupported, MsgGovUnsupported))

\* Faulty variant: a skipped resource is marked as started and its status
\* is updated.
SkippedAfterStart(in, steps) ==
  [result |-> OK, gate |-> "none", stage |-> "skip",
   conds |-> <<SetConditionFromResult(ReadyType, OK)>>,
   calls |-> steps \o <<Step("MarkReconciliationStarted"), Step("statushandler.Update")>>]

\* lines 56-66: the resource carries the skip annotation; steps are the
\* steps taken so far
Skipped(in, steps) ==
  IF in.deleting
    THEN IF in.finalizerErr
           THEN [result |-> Terminate(Internal, "finalizer"), gate |-> "none",
                 stage |-> "skip", conds |-> <<>>,
                 calls |-> steps \o <<Step("ManageFinalizer")>>]
           ELSE [result |-> OK, gate |-> "none", stage |-> "skip", conds |-> <<>>,
                 calls |-> steps \o <<Step("ManageFinalizer")>>]
    ELSE [result |-> OK, gate |-> "none", stage |-> "skip", conds |-> <<>>,
          calls |-> steps]

\* Faulty variant: a resource the operator does not own is reconciled all
\* the same.
OwnerCheckedIgnoringAnswer(in, steps, deferred) ==
  IF in.ownerErr
    THEN LET res == Terminate(Internal, MsgOwnership \o ": " \o ApiError)
         IN [result |-> res, gate |-> "error", stage |-> "owner",
             conds |-> <<SetConditionFromResult(FederatedAuthReadyType, res)>>,
             calls |-> steps \o deferred]
  ELSE [result |-> in.ensure, gate |-> IF in.owner THEN "permitted" ELSE "denied",
        stage |-> "ensure",
        conds |-> <<SetConditionFromResult(FederatedAuthReadyType, in.ensure),
                    SetConditionFromResult(ReadyType, in.ensure)>>,
        calls |-> steps \o <<Step("ensureFederatedAuth")>> \o deferred]

\* lines 95-119: what Reconcile makes of the answer of customresource.IsOwner;
\* steps are the steps taken so far, IsOwner included
OwnerChecked(in, steps, deferred) ==
  IF in.ownerErr
    THEN LET res == Terminate(Internal, MsgOwnership \o ": " \o ApiError)
         IN [result |-> res, gate |-> "error", stage |-> "owner",
             conds |-> <<SetConditionFromResult(FederatedAuthReadyType, res)>>,
             calls |-> steps \o deferred]
  ELSE IF ~in.owner
    THEN [result |-> FedDeletionProtectionResult, gate |-> "denied", stage |-> "owner",
          conds |-> <<SetConditionFromResult(FederatedAuthReadyType,
                                             FedDeletionProtectionResult)>>,
          calls |-> steps \o deferred]
  ELSE [result |-> in.ensure, gate |-> "permitted", stage |-> "ensure",
        conds |-> <<SetConditionFromResult(FederatedAuthReadyType, in.ensure),
                    SetConditionFromResult(ReadyType, in.ensure)>>,
        calls |-> steps \o <<Step("ensureFederatedAuth")>> \o deferred]

Reconcile(in) ==
  LET s1 == <<Step("PrepareResource")>>
      s2 == s1 \o <<Step("MarkReconciliationStarted"), Step("ValidateResourceVersion")>>
      s3 == s2 \o <<Step("IsResourceSupported")>>
      s4 == s3 \o <<Step("SdkClient")>>
      s5 == s4 \o <<Step("IsOwner")>>
      deferred == <<Step("statushandler.Update")>>
  IN IF ~IsOk(in.prepare)
       THEN [result |-> in.prepare, gate |-> "none", stage |-> "prepare",
             conds |-> <<>>, calls |-> s1]
     ELSE IF in.skip
       THEN Skipped(in, s1)
     ELSE IF ~IsOk(in.version)
       THEN [result |-> in.version, gate |-> "none", stage |-> "version",
             conds |-> <<>>, calls |-> s2 \o deferred]
     ELSE IF ~in.supported
       THEN [result |-> UnsupportedResult, gate |-> "none", stage |-> "supported",
             conds |-> <<SetConditionFromResult(FederatedAuthReadyType, UnsupportedResult)>>,
             calls |-> s3 \o deferred]
     ELSE IF in.clientErr
       THEN LET res == Terminate(AtlasAPIAccessNotConfigured, ApiError)
            IN [result |-> res, gate |-> "none", stage |-> "client",
                conds |-> <<SetConditionFromResult(FederatedAuthReadyType, res)>>,
                calls |-> s4 \o deferred]
     ELSE OwnerChecked(in, s5, deferred)

CollaboratorResults ==
  {OK, InProgress(Internal, "pending"), Terminate(Internal, "failed")}

ReconcileInputs ==
  [prepare : {OK, Terminate(Internal, "failed")}, skip : BOOLEAN, deleting : BOOLEAN,
   finalizerErr : BOOLEAN, version : {OK, Terminate(Internal, "failed")},
   supported : BOOLEAN, clientErr : BOOLEAN, owner : BOOLEAN, ownerErr : BOOLEAN,
   ensure : CollaboratorResults]

PublishReconcile(out) ==
  /\ handler' = ReconcileName
  /\ gate' = out.gate
  /\ stage' = out.stage
  /\ result' = out.result
  /\ calls' = out.calls
  /\ conds' = out.conds

\* One reconciliation of an AtlasFederatedAuth resource.
FederatedAuthReconcile ==
  /\ resource = "AtlasFederatedAuth"
  /\ \E in \in ReconcileInputs : PublishReconcile(Reconcile(in))
  /\ UNCHANGED <<resource, protected, spec, annotation, atlasRoles, statuses,
                 priorStatuses, priorRoles, atlasEndpoints, listedPEs,
                 creationOrder, priorOrder>>

Next == Pass \/ FederatedAuthReconcile

Spec == Init /\ [][Next]_vars

\* ------------------------------------------------ ensurePrivateEndpoints
\* Data federation private endpoints (package atlasdatafederation). An
\* endpoint is identified by its EndpointID; Provider is a secondary field.
EndpointIDs == 1..MaxEndpoints
PEProviders == {"AWS", "AZURE"}

DataFederationPE(id, provider) == [EndpointID |-> id, Provider |-> provider]

DataFederationPEs == {DataFederationPE(id, p) : id \in EndpointIDs, p \in PEProviders}

DataFederationSpec(endpoints) == [PrivateEndpoints |-> endpoints]

\* Endpoint lists in which no identifier occurs twice
EndpointLists ==
  {l \in UNION {[1..n -> DataFederationPEs] : n \in 0..MaxEndpoints} :
     \A i, j \in 1..Len(l) : i < j => l[i].EndpointID # l[j].EndpointID}

\* Orders in which a collection of endpoints may be walked through
Iterations == {l \in [1..MaxEndpoints -> EndpointIDs] :
                 \A i, j \in 1..MaxEndpoints : i < j => l[i] # l[j]}

RECURSIVE InOrder(_, _)
InOrder(iteration, endpoints) ==
  IF iteration = <<>> THEN <<>>
  ELSE (IF \E e \in endpoints : e.EndpointID = Head(iteration)
          THEN <<CHOOSE e \in endpoints : e.EndpointID = Head(iteration)>>
          ELSE <<>>) \o InOrder(Tail(iteration), endpoints)

\* internal/set.Difference over endpoints: the items of left whose
\* identifier no item of right has
DifferencePE(left, right) ==
  {x \in Range(left) : \A y \in Range(right) : x.EndpointID # y.EndpointID}

\* The record kept of one call to the data federation API
PECall(op, endpoint, ok) == [op |-> op, endpoint |-> endpoint, ok |-> ok]

\* lines 54-60: the endpoints of the project in the order the API chooses,
\* or an error with no endpoints
getAllDataFederationPEs(remote, listing, fails) ==
  IF fails THEN [err |-> TRUE, endpoints |-> <<>>]
  ELSE [err |-> FALSE, endpoints |-> InOrder(listing, remote)]

\* lines 35-40: the calls are numbered through both loops; call failAt fails
RECURSIVE CreateLoop(_, _, _)
CreateLoop(endpoints, failAt, acc) ==
  IF endpoints = <<>> THEN acc
  ELSE IF Len(acc.calls) + 1 = failAt
    THEN [remote |-> acc.remote,
          calls  |-> Append(acc.calls, PECall("CreateOnePrivateEndpoint", Head(endpoints), FALSE)),
          err    |-> ApiError]
  ELSE CreateLoop(Tail(endpoints), failAt,
         [remote |-> {x \in acc.remote : x.EndpointID # Head(endpoints).EndpointID}
                       \cup {Head(endpoints)},
          calls  |-> Append(acc.calls, PECall("CreateOnePrivateEndpoint", Head(endpoints), TRUE)),
          err    |-> ""])

\* lines 44-49
RECURSIVE DeleteLoop(_, _, _)
DeleteLoop(endpoints, failAt, acc) ==
  IF endpoints = <<>> THEN acc
  ELSE IF Len(acc.calls) + 1 = failAt
    THEN [remote |-> acc.remote,
          calls  |-> Append(acc.calls, PECall("DeleteOnePrivateEndpoint",
                                             Head(endpoints).EndpointID, FALSE)),
          err    |-> ApiError]
  ELSE DeleteLoop(Tail(endpoints), failAt,
         [remote |-> {x \in acc.remote : x.EndpointID # Head(endpoints).EndpointID},
          calls  |-> Append(acc.calls, PECall("DeleteOnePrivateEndpoint",
                                             Head(endpoints).EndpointID, TRUE)),
          err    |-> ""])

\* what syncPrivateEndpointsWithAtlas returns, with the endpoints Atlas then
\* holds and the calls made
PESynced(res, acc) == [result |-> res, remote |-> acc.remote, calls |-> acc.calls]

EndpointsDeleted(deleted) ==
  IF deleted.err # "" THEN PESynced(Terminate(Internal, deleted.err), deleted)
  ELSE PESynced(OK, deleted)

\* Faulty variant: the endpoints to delete are deleted although a create
\* failed.
EndpointsCreatedThenDeleted(specPEs, atlasPEs, in, created) ==
  EndpointsDeleted(
    DeleteLoop(InOrder(in.iteration, DifferencePE(atlasPEs, specPEs)),
               in.failAt, created))

EndpointsCreated(specPEs, atlasPEs, in, created) ==
  IF created.err # "" THEN PESynced(Terminate(Internal, created.err), created)
  ELSE EndpointsDeleted(
         DeleteLoop(InOrder(in.iteration, DifferencePE(atlasPEs, specPEs)),
                    in.failAt, created))

\* Faulty variant: every desired endpoint is created, whatever Atlas holds.
syncCreatingAllDesired(remote, specPEs, atlasPEs, in) ==
  EndpointsCreated(specPEs, atlasPEs, in,
    CreateLoop(InOrder(in.iteration, Range(specPEs)),
               in.failAt, [remote |-> remote, calls |-> <<>>, err |-> ""]))

\* in.iteration: the order in which a difference is walked through;
\* in.failAt: the call that fails (0: none)
syncPrivateEndpointsWithAtlas(remote, specPEs, atlasPEs, in) ==
  EndpointsCreated(specPEs, atlasPEs, in,
    CreateLoop(InOrder(in.iteration, DifferencePE(specPEs, atlasPEs)),
               in.failAt, [remote |-> remote, calls |-> <<>>, err |-> ""]))

DataFederationPEReadyType == "DataFederationPEReady"

\* lines 23-29: what ensurePrivateEndpoints makes of the result of the sync
PEEnsured(list, synced) ==
  [result |-> IF IsOk(synced.result) THEN OK ELSE synced.result,
   conds  |-> IF IsOk(synced.result) THEN <<>>
              ELSE <<SetConditionFromResult(DataFederationPEReadyType, synced.result)>>,
   stage  |-> IF list.err THEN "listFailed" ELSE "listed",
   remote |-> synced.remote, calls |-> synced.calls, listed |-> list.endpoints]

\* Faulty variant: a failure of GetAllPrivateEndpoints ends the pass with
\* Terminate before any call.
PEListedOrTerminated(remote, specPEs, in, list) ==
  IF list.err
    THEN PEEnsured(list, [result |-> Terminate(Internal, ApiError),
                          remote |-> remote, calls |-> <<>>])
    ELSE PEEnsured(list,
                   syncPrivateEndpointsWithAtlas(remote, specPEs, list.endpoints, in))

\* in.listFails, in.listing: GetAllPrivateEndpoints fails, or lists the
\* endpoints in the given order. A failure is only logged: the sync then
\* runs over an empty remote list.
PEListed(remote, specPEs, in, list) ==
  PEEnsured(list,
            syncPrivateEndpointsWithAtlas(remote, specPEs, list.endpoints, in))

ensurePrivateEndpoints(remote, specPEs, in) ==
  PEListed(remote, specPEs, in,
           getAllDataFederationPEs(remote, in.listing, in.listFails))

PEInputs ==
  [listFails : BOOLEAN, listing : Iterations, iteration : Iterations,
   failAt : 0..MaxEndpoints]

EnsurePEName == "ensurePrivateEndpoints"

PublishPE(out) ==
  /\ handler' = EnsurePEName
  /\ stage' = out.stage
  /\ result' = out.result
  /\ calls' = out.calls
  /\ conds' = out.conds
  /\ atlasEndpoints' = out.remote
  /\ listedPEs' = out.listed

\* One reconciliation of the private endpoints of an AtlasDataFederation.
EnsurePrivateEndpoints ==
  /\ resource = "AtlasDataFederation"
  /\ \E in \in PEInputs :
       PublishPE(ensurePrivateEndpoints(atlasEndpoints, spec.PrivateEndpoints, in))
  /\ UNCHANGED <<resource, protected, spec, annotation, atlasRoles, statuses,
                 gate, priorStatuses, priorRoles, creationOrder, priorOrder>>

\* Endpoint sets Atlas may hold: no identifier twice
RemoteEndpointSets ==
  {s \in SUBSET DataFederationPEs :
     \A x, y \in s : x.EndpointID = y.EndpointID => x = y}

InitPE ==
  /\ resource = "AtlasDataFederation"
  /\ protected = FALSE
  /\ spec \in {DataFederationSpec(l) : l \in EndpointLists}
  /\ annotation = AnnotationAbsent
  /\ atlasRoles = {} /\ statuses = <<>>
  /\ handler = "none" /\ gate = "none" /\ stage = "none" /\ result = NoResult
  /\ calls = <<>> /\ conds = <<>> /\ priorStatuses = <<>> /\ priorRoles = {}
  /\ atlasEndpoints \in RemoteEndpointSets /\ listedPEs = <<>>
  /\ creationOrder = <<>> /\ priorOrder = <<>>

NextPE == EnsurePrivateEndpoints

SpecPE == InitPE /\ [][NextPE]_vars

\* ------------------------------------------- roles with feature usages
DataLake == "ATLAS_DATA_LAKE"

\* What Atlas may report as the feature usages of a role
FeatureUsageLists ==
  {<<>>,
   <<FeatureUsage(DataLake, StringID("bucket"))>>,
   <<NilFeature, FeatureUsage(DataLake, NilID)>>,
   <<FeatureUsage(DataLake, ObjectID)>>}

RolesInUse(roles) ==
  {WithFeatureUsages(r, f) : r \in roles, f \in FeatureUsageLists}

\* Projects whose roles in Atlas are in use by features, and federated-auth
\* resources
InitFeatures ==
  /\ resource \in {"AtlasProject", "AtlasFederatedAuth"}
  /\ protected = FALSE
  /\ annotation = AnnotationAbsent
  /\ IF resource = "AtlasProject"
       THEN /\ spec \in ProjectSpecs
            /\ atlasRoles \in {s \in SUBSET RolesInUse(InitialRoles) :
                                 \A q, r \in s : q.RoleID = r.RoleID => q = r}
       ELSE /\ spec = ProjectSpec(<<>>, <<>>)
            /\ atlasRoles = {}
  /\ statuses = <<>>
  /\ handler = "none" /\ gate = "none" /\ stage = "none" /\ result = NoResult
  /\ calls = <<>> /\ conds = <<>> /\ priorStatuses = <<>> /\ priorRoles = {}
  /\ atlasEndpoints = {} /\ listedPEs = <<>>
  /\ creationOrder = CreatedBefore(atlasRoles) /\ priorOrder = <<>>

SpecFeatures == InitFeatures /\ [][Next]_vars

\* ------------------------------------------- edits of the desired state
\* Between passes the user may edit AtlasProject.Spec; the next pass reads
\* the edited list (part_000 line 38). An edit leaves the record of the last
\* pass behind it.
Edited(integrations) ==
  /\ spec' = ProjectSpec(<<>>, integrations)
  /\ handler' = "edit"
  /\ UNCHANGED <<resource, protected, annotation, atlasRoles, statuses,
                 gate, stage, result, calls, conds, priorStatuses, priorRoles,
                 atlasEndpoints, listedPEs, creationOrder, priorOrder>>

WithARN(integrations, i, arn) ==
  [k \in 1..Len(integrations) |->
     IF k = i THEN CloudProviderIntegration(arn) ELSE integrations[k]]

\* The user fills in the ARN of an integration declared without one.
PopulateARN ==
  /\ resource = "AtlasProject"
  /\ \E i \in 1..Len(spec.CloudProviderIntegrations), arn \in ARNs :
       /\ spec.CloudProviderIntegrations[i].IamAssumedRoleArn = NoARN
       /\ \A k \in 1..Len(spec.CloudProviderIntegrations) :
            spec.CloudProviderIntegrations[k].IamAssumedRoleArn # arn
       /\ Edited(WithARN(spec.CloudProviderIntegrations, i, arn))

\* The user removes every integration from the project.
RemoveIntegrations ==
  /\ resource = "AtlasProject"
  /\ spec.CloudProviderIntegrations # <<>>
  /\ Edited(<<>>)

\* Projects whose integrations are edited between passes
InitEdit ==
  /\ resource = "AtlasProject"
  /\ protected \in BOOLEAN
  /\ spec \in {ProjectSpec(<<>>, l) : l \in {d \in DesiredLists : Len(d) <= 1}}
  /\ annotation = AnnotationAbsent
  /\ atlasRoles \in {{}, {Role(1, "arn1", SomeDate)}}
  /\ statuses = <<>>
  /\ handler = "none" /\ gate = "none" /\ stage = "none" /\ result = NoResult
  /\ calls = <<>> /\ conds = <<>> /\ priorStatuses = <<>> /\ priorRoles = {}
  /\ atlasEndpoints = {} /\ listedPEs = <<>>
  /\ creationOrder = CreatedBefore(atlasRoles) /\ priorOrder = <<>>

NextEdit == Pass \/ PopulateARN \/ RemoveIntegrations

SpecEdit == InitEdit /\ [][NextEdit]_vars

\* ------------------------------------------- projects new to Atlas
\* Projects for which Atlas holds no role when the operator first sees them;
\* the operator is the only writer of the roles.
InitFresh ==
  /\ resource = "AtlasProject"
  /\ protected \in BOOLEAN
  /\ spec \in ProjectSpecs
  /\ annotation \in (IF protected THEN Annotations
                     ELSE {AnnotationAbsent, AnnotationMalformed})
  /\ atlasRoles = {}
  /\ statuses = <<>>
  /\ handler = "none" /\ gate = "none" /\ stage = "none" /\ result = NoResult
  /\ calls = <<>> /\ conds = <<>> /\ priorStatuses = <<>> /\ priorRoles = {}
  /\ atlasEndpoints = {} /\ listedPEs = <<>>
  /\ creationOrder = <<>> /\ priorOrder = <<>>

SpecFresh == InitFresh /\ [][Pass]_vars

\* ------------------------------------------------ passes under retries
\* The pass in which every call to Atlas succeeds and AuthorizeRole returns
\* an authorized role.
BestResponse(cpiStatus) ==
  IF "okAuth" \in ResponsesOf(cpiStatus) THEN "okAuth" ELSE "ok"

Succeeds(in) ==
  /\ ~in.gateListFails /\ ~in.syncListFails
  /\ LET expected == enrichStatuses(
                       initiateStatuses(getCloudProviderIntegrations(spec)),
                       RolesAscending(atlasRoles))
     IN \A i \in 1..Len(expected) : in.responses[i] = BestResponse(expected[i])

PassSucceeding ==
  /\ resource = "AtlasProject"
  /\ \E in \in {i \in PassInputs : Succeeds(i)} :
       Publish(ensureCloudProviderIntegration(protected, spec, annotation,
                                              statuses, atlasRoles, in))
  /\ UNCHANGED <<resource, protected, spec, annotation, atlasEndpoints, listedPEs>>

\* Projects without deletion protection whose integrations all carry an ARN
InitLive ==
  /\ resource = "AtlasProject"
  /\ protected = FALSE
  /\ spec \in {ProjectSpec(<<>>, l) :
                 l \in {d \in DesiredLists :
                          \A i \in 1..Len(d) : d[i].IamAssumedRoleArn # NoARN}}
  /\ annotation = AnnotationAbsent
  /\ atlasRoles \in SUBSET InitialRoles
  /\ statuses = <<>>
  /\ handler = "none" /\ gate = "none" /\ stage = "none" /\ result = NoResult
  /\ calls = <<>> /\ conds = <<>> /\ priorStatuses = <<>> /\ priorRoles = {}
  /\ atlasEndpoints = {} /\ listedPEs = <<>>
  /\ creationOrder = CreatedBefore(atlasRoles) /\ priorOrder = <<>>

\* The state already shows the outcome of a pass: taking the pass again
\* changes nothing.
Shows(out) ==
  /\ handler = EnsureName /\ gate = out.gate /\ stage = out.stage
  /\ result = out.result /\ calls = out.calls /\ conds = out.conds
  /\ priorStatuses = statuses /\ priorRoles = atlasRoles
  /\ statuses = out.statuses /\ atlasRoles = out.roles

\* No succeeding pass changes the state: ~ENABLED <<PassSucceeding>>_vars,
\* written as a predicate of the current state.
PassSucceedingIdle ==
  \A in \in {i \in PassInputs : Succeeds(i)} :
    Shows(ensureCloudProviderIntegration(protected, spec, annotation,
                                         statuses, atlasRoles, in))

\* The caller requeues the pass, and the calls to Atlas succeed in the end:
\* strong fairness of the succeeding pass, SF_vars(PassSucceeding), with its
\* enabling condition spelled out.
EventuallySucceeds == []<><<PassSucceeding>>_vars \/ <>[]PassSucceedingIdle

SpecLive == InitLive /\ [][Pass]_vars /\ EventuallySucceeds

\* ======================================================================
\* Properties
\* ======================================================================
IdsOf(list) == {Identifier(x) : x \in Range(list)}

RoleIdentifier(arn) == AWS \o "." \o arn

\* identifiers of the last-applied, the current desired and the remote items
LastAppliedIds == IdsOf(getCloudProviderIntegrations(annotation.config))
DesiredIds     == IdsOf(getCloudProviderIntegrations(spec))
RemoteIds(roles)        == {RoleIdentifier(r.IAMAssumedRoleARN) : r \in roles}
RemoteIdsWithARN(roles) == {RoleIdentifier(r.IAMAssumedRoleARN) :
                              r \in {q \in roles : q.IAMAssumedRoleARN # NoARN}}

MutatingOps == {"CreateRole", "AuthorizeRole", "DeauthorizeRole"}

NoMutatingCall(cs) == \A k \in 1..Len(cs) : cs[k].op \notin MutatingOps

EnsureRan == handler = EnsureName

\* the resolver failed on the list call, not on the annotation
GateListFailed == gate = "error" /\ result.message = MsgOwnership \o ": " \o ApiError

\* what the resolver answers on the roles the last pass started from
ResolverAnswer ==
  canCloudProviderIntegrationReconcile(protected, annotation,
                                       ListRoles(priorRoles, "asc", FALSE), spec)

\* ---------------------------------------------------------------- C1
\* C1: with deletion protection enabled, no pass of
\* ensureCloudProviderIntegration issues a DeauthorizeRole call for a role
\* whose (provider, ARN) identifier is absent from the last-applied
\* configuration.
C1_NoDeauthorizeOutsideLastApplied ==
  (EnsureRan /\ protected) =>
    \A k \in 1..Len(calls) :
      calls[k].op = "DeauthorizeRole" => RoleIdentifier(calls[k].arn) \in LastAppliedIds

\* ---------------------------------------------------------------- C2
\* C2: when the resolver answers "not permitted", the pass returns Terminate
\* with the deletion-protection reason, issues no CreateRole, AuthorizeRole or
\* DeauthorizeRole call and leaves the persisted statuses as they were.
C2_DeniedPassDoesNothing ==
  (EnsureRan /\ ~GateListFailed /\ ResolverAnswer.err = "" /\ ~ResolverAnswer.can) =>
    /\ result.kind = "Terminate"
    /\ result.reason = AtlasDeletionProtection
    /\ NoMutatingCall(calls)
    /\ statuses = priorStatuses
    /\ atlasRoles = priorRoles

C2_Witness ==
  /\ EnsureRan /\ gate = "denied" /\ priorStatuses # <<>>
  /\ getCloudProviderIntegrations(spec) # <<>>

\* ---------------------------------------------------------------- C3
\* C3 as stated: for last-applied L, desired C and remote R by identifier, the
\* resolver permits exactly when protection is off, or R is empty, or R \ L
\* is empty, or C \ R is empty - R being all the remote roles.
PermittedFor(R) ==
  \/ ~protected
  \/ R = {}
  \/ R \ LastAppliedIds = {}
  \/ DesiredIds \ R = {}

C3_AsStated ==
  (EnsureRan /\ gate \in {"permitted", "denied"}) =>
    (gate = "permitted" <=> PermittedFor(RemoteIds(priorRoles)))

\* C3 amended: the same with R the remote roles that carry an ARN; the roles
\* without ARN are invisible to the resolver.
C3_PermittedExactlyWhen ==
  (EnsureRan /\ gate \in {"permitted", "denied"}) =>
    (gate = "permitted" <=> PermittedFor(RemoteIdsWithARN(priorRoles)))

\* permitted because the only remote roles outside the last-applied
\* configuration carry no ARN
C3_Witness ==
  /\ EnsureRan /\ protected /\ gate = "permitted"
  /\ \E r \in priorRoles : r.IAMAssumedRoleARN = NoARN
  /\ ~PermittedFor(RemoteIds(priorRoles))

\* ---------------------------------------------------------------- C4
\* C4 as stated: if the remote list is empty the resolver answers "permitted"
\* whatever the desired configuration and the last-applied snapshot hold.
C4_AsStated ==
  (EnsureRan /\ ~GateListFailed /\ priorRoles = {}) => gate = "permitted"

\* C4 amended: if the remote list is empty and the last-applied snapshot is
\* absent or parses, the resolver answers "permitted" whatever the desired
\* configuration and the snapshot hold.
C4_EmptyRemotePermitted ==
  (EnsureRan /\ ~GateListFailed /\ priorRoles = {} /\ annotation.state # "malformed")
    => gate = "permitted"

C4_Witness ==
  /\ EnsureRan /\ protected /\ priorRoles = {} /\ gate = "permitted"
  /\ LastAppliedIds # {} /\ DesiredIds \ LastAppliedIds # {}

ListRolesFailed == GateListFailed \/ stage = "list"

FailedWithoutEffect ==
  /\ result.kind = "Terminate"
  /\ NoMutatingCall(calls)
  /\ statuses = priorStatuses
  /\ atlasRoles = priorRoles

C6_AsStated ==
  (EnsureRan /\ (annotation.state = "malformed" \/ ListRolesFailed)) => FailedWithoutEffect

\* C6 amended: the same, for a malformed snapshot only when deletion
\* protection is enabled; without it the snapshot is not read.
C6_ResolutionFailureHasNoEffect ==
  (EnsureRan /\ ((protected /\ annotation.state = "malformed") \/ ListRolesFailed))
    => FailedWithoutEffect

\* ListRoles failed in syncCloudProviderIntegration after earlier passes had
\* persisted statuses
C6_Witness ==
  /\ EnsureRan /\ stage = "list" /\ priorStatuses # <<>>
  /\ result = Terminate(ProjectCloudIntegrationsIsNotReadyInAtlas, MsgListFailed)

\* ---------------------------------------------------------------- C7
\* C7: after the per-item loop the result is a retryable Terminate with the
\* message "not all items were synchronized successfully" if the call of any
\* item failed, whatever else holds; otherwise Ok if every item kept is
\* Authorized; otherwise InProgress with "not all entries are authorized".
SomeCallFailed == \E k \in 1..Len(calls) : ~calls[k].ok

C7_ResultAggregation ==
  (EnsureRan /\ stage = "loop") =>
    IF SomeCallFailed
      THEN /\ result = Terminate(ProjectCloudIntegrationsIsNotReadyInAtlas, MsgNotAllSynced)
           /\ result.retry
    ELSE IF \A i \in 1..Len(statuses) : statuses[i].Status = StatusAuthorized
      THEN result = OK
    ELSE result = InProgress(ProjectCloudIntegrationsIsNotReadyInAtlas, MsgNotAllAuth)

\* a failed call although every item kept is Authorized
C7_Witness ==
  /\ EnsureRan /\ stage = "loop" /\ SomeCallFailed
  /\ statuses # <<>>
  /\ \A i \in 1..Len(statuses) : statuses[i].Status = StatusAuthorized
  /\ result.kind = "Terminate"

\* ---------------------------------------------------------------- C8
\* C8 as stated: the pass returns Ok only when every status of a desired item
\* is Authorized and no remote role without a desired item remains.
EveryDesiredAuthorized ==
  /\ Len(statuses) = Len(getCloudProviderIntegrations(spec))
  /\ \A i \in 1..Len(statuses) : statuses[i].Status = StatusAuthorized

NoRemoteOnlyRole ==
  \A r \in atlasRoles : \E i \in 1..Len(statuses) : statuses[i].RoleID = r.RoleID

C8_AsStated ==
  (EnsureRan /\ IsOk(result)) => (EveryDesiredAuthorized /\ NoRemoteOnlyRole)

\* C8 amended: the same for an Ok returned after syncCloudProviderIntegration;
\* the Ok returned when neither desired items nor statuses exist says nothing
\* about the remote roles.
C8_OkOnlyWhenConverged ==
  (EnsureRan /\ IsOk(result) /\ stage = "loop")
    => (EveryDesiredAuthorized /\ NoRemoteOnlyRole)

\* Ok after a pass that removed a remote-only role
C8_Witness ==
  /\ EnsureRan /\ IsOk(result) /\ stage = "loop" /\ statuses # <<>>
  /\ \E k \in 1..Len(calls) : calls[k].op = "DeauthorizeRole"

\* ---------------------------------------------------------------- C9
\* C9 as stated: two passes in a row without error and without remote change
\* leave the same statuses after the second as after the first.
PassWithoutError == EnsureRan /\ result.kind # "Terminate"

C9_AsStated ==
  [][(PassWithoutError /\ handler' = EnsureName /\ result'.kind # "Terminate")
       => statuses' = statuses]_vars

\* C9 amended: once a pass has returned Ok, a further pass issues no
\* CreateRole, AuthorizeRole or DeauthorizeRole call and leaves the statuses
\* and the remote roles as they are.
C9_ConvergedPassIsIdempotent ==
  [][(EnsureRan /\ IsOk(result) /\ handler' = EnsureName)
       => (NoMutatingCall(calls') /\ statuses' = statuses /\ atlasRoles' = atlasRoles)]_vars

\* a pass over statuses that were all Authorized, which made no call and kept them
C9_Witness ==
  /\ EnsureRan /\ IsOk(result) /\ stage = "loop" /\ calls = <<>>
  /\ priorStatuses # <<>> /\ statuses = priorStatuses
  /\ \A i \in 1..Len(priorStatuses) : priorStatuses[i].Status = StatusAuthorized

\* --------------------------------------------------------------- C10
\* C10: when the call of one item fails the other items are still handled,
\* the result is a retryable Terminate, and the statuses keep every item of
\* the desired configuration: at its failure phase with the error message
\* if its call failed, at the phase it reached otherwise; what the
\* successful calls did in Atlas stays.
Enriched ==
  enrichStatuses(initiateStatuses(getCloudProviderIntegrations(spec)),
                 sortAtlasCPAsByRoleID(RolesAscending(priorRoles)))

NeedsCall(cpiStatus) ==
  \/ cpiStatus.Status \in {StatusNew, StatusDeAuthorize}
  \/ cpiStatus.Status = StatusCreated /\ cpiStatus.IamAssumedRoleArn # NoARN

CallsOf(i) == {k \in 1..Len(calls) : calls[k].item = i}

PersistedAfter(i) ==
  IF CallsOf(i) = {} THEN statuses[i] = Enriched[i]
  ELSE \A k \in CallsOf(i) :
         IF calls[k].ok
           THEN /\ statuses[i].Status \in {StatusCreated, StatusAuthorized}
                /\ statuses[i].ErrorMessage = ""
                /\ \E r \in atlasRoles : r.RoleID = statuses[i].RoleID
         ELSE /\ statuses[i].ErrorMessage = ApiError
              /\ statuses[i].Status = IF calls[k].op = "CreateRole"
                                        THEN StatusFailedToCreate
                                        ELSE StatusFailedToAuthorize

C10_PartialFailure ==
  (EnsureRan /\ stage = "loop" /\ SomeCallFailed) =>
    /\ \A i \in 1..Len(Enriched) : NeedsCall(Enriched[i]) <=> Cardinality(CallsOf(i)) = 1
    /\ result.kind = "Terminate" /\ result.retry
    /\ Len(statuses) = Len(getCloudProviderIntegrations(spec))
    /\ \A i \in 1..Len(statuses) : PersistedAfter(i)

\* a failed CreateRole followed by a successful call, next to an Authorized item
C10_Witness ==
  /\ EnsureRan /\ stage = "loop"
  /\ \E k1, k2 \in 1..Len(calls) :
       /\ k1 < k2 /\ ~calls[k1].ok /\ calls[k1].op = "CreateRole" /\ calls[k2].ok
  /\ \E i, j \in 1..Len(statuses) :
       /\ statuses[i].Status = StatusAuthorized
       /\ statuses[j].Status = StatusFailedToCreate /\ statuses[j].ErrorMessage # ""

\* --------------------------------------------------------------- C11
\* C11 (scenario A): with one desired item without ARN, no remote role and no
\* prior status, a pass whose call succeeds issues exactly one CreateRole,
\* persists one status in phase Created and does not return Ok; once the item
\* carries an ARN, a pass that finds the created role issues AuthorizeRole for
\* its role id and no CreateRole, and the status becomes Authorized and the
\* result Ok when the role comes back authorized; no pass returns Ok while
\* the item has no ARN.
DesiredList == getCloudProviderIntegrations(spec)

CreatedRoles == {Role(id, NoARN, NoDate) : id \in RoleIDs}

RoleOf(id) == CHOOSE r \in atlasRoles : r.RoleID = id

FirstPassCreates ==
  (/\ EnsureRan /\ stage = "loop" /\ ~SomeCallFailed
   /\ DesiredList = <<CloudProviderIntegration(NoARN)>>
   /\ priorRoles = {} /\ priorStatuses = <<>>) =>
    /\ Len(calls) = 1 /\ calls[1].op = "CreateRole"
    /\ Len(statuses) = 1
    /\ statuses[1].Status = StatusCreated
    /\ statuses[1].IamAssumedRoleArn = NoARN
    /\ statuses[1].RoleID = calls[1].roleID
    /\ ~IsOk(result)

LaterPassAuthorizes ==
  \A created \in CreatedRoles :
    (/\ EnsureRan /\ stage = "loop" /\ ~SomeCallFailed
     /\ Len(DesiredList) = 1 /\ DesiredList[1].IamAssumedRoleArn # NoARN
     /\ priorRoles = {created}) =>
      /\ calls = <<Call("AuthorizeRole", 1, created.RoleID,
                        DesiredList[1].IamAssumedRoleArn, TRUE)>>
      /\ Len(statuses) = 1
      /\ statuses[1].RoleID = created.RoleID
      /\ \E r \in atlasRoles : r.RoleID = created.RoleID
      /\ IF RoleOf(created.RoleID).AuthorizedDate # NoDate
           THEN statuses[1].Status = StatusAuthorized /\ IsOk(result)
           ELSE statuses[1].Status = StatusCreated /\ ~IsOk(result)

C11_ScenarioA ==
  /\ FirstPassCreates
  /\ LaterPassAuthorizes
  /\ (EnsureRan /\ DesiredList = <<CloudProviderIntegration(NoARN)>>) => ~IsOk(result)

\* the pass that authorizes the role an earlier pass created
C11_Witness ==
  /\ EnsureRan /\ IsOk(result)
  /\ Len(calls) = 1 /\ calls[1].op = "AuthorizeRole" /\ calls[1].ok
  /\ Len(priorStatuses) = 1
  /\ priorStatuses[1].Status = StatusCreated
  /\ priorStatuses[1].IamAssumedRoleArn = NoARN
  /\ Len(statuses) = 1 /\ statuses[1].Status = StatusAuthorized

\* --------------------------------------------------------------- C12
\* C12 as stated (scenario C): when the desired list is empty and the remote
\* list holds an authorized role, the pass synthesizes a DeAuthorize status
\* for it and issues DeauthorizeRole for that role; after a successful call
\* the persisted statuses are empty and the result is Ok.
AuthorizedRoles(roles) == {r \in roles : r.AuthorizedDate # NoDate}

RemovedInPass(r) ==
  /\ \E i \in 1..Len(Enriched) :
       /\ Enriched[i].Status = StatusDeAuthorize
       /\ Enriched[i].RoleID = r.RoleID
       /\ \E k \in 1..Len(calls) :
            /\ calls[k].op = "DeauthorizeRole"
            /\ calls[k].item = i
            /\ calls[k].roleID = r.RoleID
  /\ statuses = <<>>
  /\ ~SomeCallFailed => (IsOk(result) /\ r \notin atlasRoles)

C12_AsStated ==
  (EnsureRan /\ gate = "permitted" /\ stage # "list" /\ DesiredList = <<>>) =>
    \A r \in AuthorizedRoles(priorRoles) : RemovedInPass(r)

\* C12 amended: the same when the project still carries persisted statuses;
\* with an empty desired list and no persisted status the pass returns Ok
\* without listing the remote roles and removes nothing.
C12_ScenarioC ==
  /\ (EnsureRan /\ stage = "loop" /\ DesiredList = <<>> /\ priorStatuses # <<>>) =>
       \A r \in AuthorizedRoles(priorRoles) : RemovedInPass(r)
  /\ (EnsureRan /\ gate = "permitted" /\ DesiredList = <<>> /\ priorStatuses = <<>>) =>
       /\ stage = "empty" /\ IsOk(result)
       /\ calls = <<>> /\ atlasRoles = priorRoles

\* an authorized role removed after its integration left the desired list
C12_Witness ==
  /\ EnsureRan /\ DesiredList = <<>> /\ priorStatuses # <<>>
  /\ Len(calls) = 1 /\ calls[1].op = "DeauthorizeRole" /\ calls[1].ok
  /\ AuthorizedRoles(priorRoles) # {} /\ atlasRoles = {}
  /\ statuses = <<>> /\ IsOk(result)

\* --------------------------------------------------------------- C13
\* C13 as stated: without deletion protection, with a fixed desired list
\* whose items all carry an ARN and calls that succeed in the end, repeated
\* passes eventually return Ok, and from then on the authorized remote roles
\* are the desired ones by identifier. In particular the two sets agree in
\* the state a pass that returned Ok leaves behind.
AuthorizedIds == {RoleIdentifier(r.IAMAssumedRoleARN) : r \in AuthorizedRoles(atlasRoles)}

ReturnedOk == EnsureRan /\ IsOk(result)

C13_AsStated == ReturnedOk => AuthorizedIds = DesiredIds

\* C13 amended: the same for a desired list that is not empty; with an empty
\* desired list and no persisted status every pass returns Ok and the remote
\* roles are left as they are.
C13_ConvergenceUnderRetries ==
  /\ <>ReturnedOk
  /\ [](ReturnedOk /\ DesiredList # <<>>
          => [](AuthorizedIds = DesiredIds /\ AuthorizedRoles(atlasRoles) = atlasRoles))
  /\ [](DesiredList # <<>> => <>[](AuthorizedIds = DesiredIds))

\* Ok from a pass that found the failure of the pass before it
C13_Witness ==
  /\ ReturnedOk /\ stage = "loop" /\ DesiredList # <<>>
  /\ AuthorizedIds = DesiredIds
  /\ \E i \in 1..Len(priorStatuses) :
       priorStatuses[i].Status \in {StatusFailedToCreate, StatusFailedToAuthorize}

\* ---------------------------------------------------------------- C14
SpecEndpoints   == spec.PrivateEndpoints
EndpointIdsOf(endpoints) == {e.EndpointID : e \in endpoints}
CreateCalls == {i \in 1..Len(calls) : calls[i].op = "CreateOnePrivateEndpoint"}
DeleteCalls == {i \in 1..Len(calls) : calls[i].op = "DeleteOnePrivateEndpoint"}
EnsurePERan == handler = EnsurePEName
Reorderings(list) ==
  {[i \in 1..Len(list) |-> list[p[i]]] :
     p \in {q \in [1..Len(list) -> 1..Len(list)] :
              \A i, j \in 1..Len(list) : i < j => q[i] # q[j]}}
NoPECallFailed == \A i \in 1..Len(calls) : calls[i].ok

\* C14: when no call fails, syncPrivateEndpointsWithAtlas creates exactly the
\* desired endpoints whose identifier the remote list lacks, deletes exactly
\* the remote identifiers the desired list lacks, each once, makes no call
\* for an identifier in both lists whatever the other fields are, and
\* returns Ok; the two differences do not depend on the order of the lists.
C14_SyncByIdentifier ==
  (EnsurePERan /\ NoPECallFailed) =>
    LET desiredIds == EndpointIdsOf(Range(SpecEndpoints))
        remoteIds  == EndpointIdsOf(Range(listedPEs))
    IN /\ {calls[i].endpoint : i \in CreateCalls}
            = {e \in Range(SpecEndpoints) : e.EndpointID \notin remoteIds}
       /\ Cardinality(CreateCalls) = Cardinality(desiredIds \ remoteIds)
       /\ {calls[i].endpoint : i \in DeleteCalls} = remoteIds \ desiredIds
       /\ Cardinality(DeleteCalls) = Cardinality(remoteIds \ desiredIds)
       /\ CreateCalls \cup DeleteCalls = 1..Len(calls)
       /\ IsOk(result)
       /\ \A l \in Reorderings(SpecEndpoints), r \in Reorderings(listedPEs) :
            /\ DifferencePE(l, r) = DifferencePE(SpecEndpoints, listedPEs)
            /\ DifferencePE(r, l) = DifferencePE(listedPEs, SpecEndpoints)

\* a sync that made a call for one endpoint and left alone another whose
\* provider differs between the two lists
C14_Witness ==
  /\ EnsurePERan /\ NoPECallFailed
  /\ CreateCalls \cup DeleteCalls # {}
  /\ \E d \in Range(SpecEndpoints), r \in Range(listedPEs) :
       d.EndpointID = r.EndpointID /\ d.Provider # r.Provider

\* ---------------------------------------------------------------- C15
SkipHonoured == handler = ReconcileName /\ stage = "skip"

StepsTaken == {calls[i].op : i \in 1..Len(calls)}

\* the work of a reconciliation: the Atlas client and the calls made with
\* it, the ownership check, the status of the resource
ReconciliationWork ==
  {"MarkReconciliationStarted", "ValidateResourceVersion", "IsResourceSupported",
   "SdkClient", "IsOwner", "ensureFederatedAuth", "statushandler.Update"}

\* C15 as stated: a federated-auth Reconcile that finds the
\* skip-reconciliation marker makes no remote API call, no ownership check
\* and no condition or status update, and returns Ok.
C15_AsStated ==
  SkipHonoured =>
    /\ StepsTaken \cap ReconciliationWork = {}
    /\ conds = <<>> /\ gate = "none"
    /\ IsOk(result)

\* C15 amended: such a Reconcile makes no remote API call, no ownership
\* check and no condition or status update; for a resource that is being
\* deleted it removes the finalizer, and it returns Ok unless that removal
\* fails, in which case it returns a retryable Terminate(Internal).
C15_SkipDoesNoWork ==
  SkipHonoured =>
    /\ StepsTaken \cap ReconciliationWork = {}
    /\ conds = <<>> /\ gate = "none"
    /\ StepsTaken \subseteq {"PrepareResource", "ManageFinalizer"}
    /\ \/ IsOk(result)
       \/ /\ "ManageFinalizer" \in StepsTaken
          /\ result.kind = "Terminate" /\ result.reason = Internal /\ result.retry

C15_Witness ==
  /\ SkipHonoured /\ "ManageFinalizer" \in StepsTaken
  /\ result.kind = "Terminate"

\* ---------------------------------------------------------------- C16
NothingToReconcile == DesiredList = <<>> /\ priorStatuses = <<>>

\* C16: a permitted pass that finds the desired list and the persisted
\* status list both empty removes the readiness condition, returns Ok and
\* makes no CreateRole, AuthorizeRole or DeauthorizeRole call; every other
\* pass that returns Ok sets the condition true.
C16_EmptyUnsetsCondition ==
  /\ (EnsureRan /\ gate = "permitted" /\ NothingToReconcile) =>
       /\ conds = <<UnsetCondition(CloudProviderIntegrationReadyType)>>
       /\ IsOk(result)
       /\ NoMutatingCall(calls) /\ atlasRoles = priorRoles
  /\ (EnsureRan /\ IsOk(result) /\ ~NothingToReconcile) =>
       /\ Len(conds) = 1
       /\ conds[1].type = CloudProviderIntegrationReadyType
       /\ conds[1].op = "True"

\* a protected project without integrations whose pass the gate permits
C16_Witness ==
  /\ EnsureRan /\ protected /\ gate = "permitted" /\ NothingToReconcile
  /\ conds = <<UnsetCondition(CloudProviderIntegrationReadyType)>>
  /\ atlasRoles # {}

\* ---------------------------------------------------------------- C17
Results == {"Ok", "InProgress", "Terminate"}

\* C17: every pass of ensureCloudProviderIntegration and every federated-auth
\* Reconcile returns a Result and none ends in a crash, whatever Atlas
\* answers, roles whose feature-usage identifier is no string included.
C17_EveryPathReturnsResult ==
  (handler \in {EnsureName, ReconcileName}) => result.kind \in Results

\* ---------------------------------------------------------------- C18
\* the pass from the state the last pass found, with the roles listed in the
\* given order
PassOutcome(order, responses, pick) ==
  ensureCloudProviderIntegration(protected, spec, annotation, priorStatuses, priorRoles,
                                 PassInput(FALSE, FALSE, order, responses, pick))

SameOperationsAndStatuses(a, d) ==
  /\ a.calls = d.calls /\ a.statuses = d.statuses
  /\ a.result = d.result /\ a.roles = d.roles

\* C18: over the same desired list, the same set of remote roles and the
\* same responses, a pass issues the same sequence of remote operations and
\* persists the same statuses whether ListRoles lists the roles in ascending
\* or in descending order; the pass that ran is one of these.
C18_ListingOrderIsIrrelevant ==
  EnsureRan =>
    /\ \A r \in ResponseFunctions(Enriched), p \in {"lo", "hi"} :
         SameOperationsAndStatuses(PassOutcome("asc", r, p), PassOutcome("desc", r, p))
    /\ stage \in {"loop", "empty"} =>
         \E r \in ResponseFunctions(Enriched), p \in {"lo", "hi"} :
           \A o \in {"asc", "desc"} :
             /\ PassOutcome(o, r, p).calls = calls
             /\ PassOutcome(o, r, p).statuses = statuses

\* a pass over two remote roles that made a call for each of them
C18_Witness ==
  /\ EnsureRan /\ stage = "loop" /\ Cardinality(priorRoles) >= 2
  /\ \E j, k \in 1..Len(calls) :
       /\ j < k /\ calls[j].roleID # NoRole /\ calls[k].roleID # NoRole
       /\ calls[j].roleID # calls[k].roleID

\* ---------------------------------------------------------------- C19
LoopRan == EnsureRan /\ stage = "loop"

TheCallOf(i) == calls[CHOOSE k \in CallsOf(i) : TRUE]

RoleWithID(id) == CHOOSE r \in atlasRoles : r.RoleID = id

\* phase of a status that took over the data of a role
PhaseFor(role) == IF role.AuthorizedDate # NoDate THEN StatusAuthorized ELSE StatusCreated

\* one iteration of the loop over a single item, from a project without roles
\* or from one that holds the role of the item
OneItem(cpiStatus, response, roles) ==
  SyncItem(cpiStatus, 1, response, "lo",
           [roles |-> roles, toUpdate |-> <<>>, calls |-> <<>>, withError |-> FALSE])

\* items in a phase that the statuses built by enrichStatuses never have
ItemIn(phase, arn, id) ==
  [NewCloudProviderIntegration(AWS, arn) EXCEPT !.Status = phase, !.RoleID = id,
                                                !.ErrorMessage = ApiError]

\* the CreateRole case of the loop, for an item in the given phase
CreatesOnce(cpiStatus) ==
  \A response \in Responses :
    LET out == OneItem(cpiStatus, response, {})
    IN /\ Len(out.calls) = 1 /\ out.calls[1].op = "CreateRole"
       /\ Len(out.toUpdate) = 1
       /\ IF response = "fail"
            THEN /\ out.toUpdate[1].Status = StatusFailedToCreate
                 /\ out.toUpdate[1].ErrorMessage = ApiError
                 /\ out.roles = {}
            ELSE /\ \E r \in out.roles :
                      /\ out.toUpdate[1].RoleID = r.RoleID
                      /\ out.toUpdate[1].AuthorizedDate = r.AuthorizedDate
                      /\ out.toUpdate[1].Status = PhaseFor(r)
                 /\ out.toUpdate[1].Status =
                      IF response = "okAuth" THEN StatusAuthorized ELSE StatusCreated

\* C19: an item in phase New or FailedToCreate gets exactly one CreateRole
\* call in the pass and no other call; on success the status takes the role
\* id and the dates of the returned role and the phase Created, or Authorized
\* if the role carries an authorization date; on failure the phase is
\* FailedToCreate and the error message is stored.
C19_CreateOncePerItem ==
  /\ LoopRan =>
       \A i \in 1..Len(Enriched) :
         Enriched[i].Status \in {StatusNew, StatusFailedToCreate} =>
           /\ Cardinality(CallsOf(i)) = 1
           /\ TheCallOf(i).op = "CreateRole"
           /\ IF TheCallOf(i).ok
                THEN /\ statuses[i].RoleID = TheCallOf(i).roleID
                     /\ statuses[i].RoleID # NoRole
                     /\ RoleWithID(statuses[i].RoleID) \notin priorRoles
                     /\ statuses[i].AuthorizedDate = RoleWithID(statuses[i].RoleID).AuthorizedDate
                     /\ statuses[i].Status = PhaseFor(RoleWithID(statuses[i].RoleID))
                     /\ statuses[i].ErrorMessage = ""
                ELSE /\ statuses[i].Status = StatusFailedToCreate
                     /\ statuses[i].ErrorMessage = ApiError
                     /\ statuses[i].RoleID = NoRole
  /\ \A arn \in ARNs \cup {NoARN} :
       /\ CreatesOnce(NewCloudProviderIntegration(AWS, arn))
       /\ CreatesOnce(ItemIn(StatusFailedToCreate, arn, NoRole))

\* a pass in which one CreateRole succeeded and another failed
C19_Witness ==
  /\ LoopRan
  /\ \E i, j \in 1..Len(Enriched) :
       /\ Enriched[i].Status = StatusNew /\ Enriched[j].Status = StatusNew
       /\ TheCallOf(i).ok /\ statuses[i].Status = StatusCreated
       /\ ~TheCallOf(j).ok /\ statuses[j].Status = StatusFailedToCreate

\* ---------------------------------------------------------------- C20
AuthorizeCalls == {k \in 1..Len(calls) : calls[k].op = "AuthorizeRole"}

\* the AuthorizeRole case of the loop, for an item with an ARN that is linked
\* to a role with or without an authorization date
AuthorizesOnce(phase, arn, date) ==
  \A response \in Responses :
    LET out == OneItem(ItemIn(phase, arn, 1), response, {Role(1, NoARN, date)})
    IN /\ Len(out.calls) = 1 /\ out.calls[1].op = "AuthorizeRole"
       /\ out.calls[1].roleID = 1 /\ out.calls[1].arn = arn
       /\ Len(out.toUpdate) = 1
       /\ IF response = "fail"
            THEN /\ out.toUpdate[1].Status = StatusFailedToAuthorize
                 /\ out.toUpdate[1].ErrorMessage = ApiError
                 /\ out.roles = {Role(1, NoARN, date)}
            ELSE /\ out.roles = {Role(1, arn, IF response = "okAuth" THEN SomeDate ELSE date)}
                 /\ out.toUpdate[1].Status =
                      IF response = "okAuth" \/ date # NoDate
                        THEN StatusAuthorized ELSE StatusCreated

\* an item without ARN in Created or FailedToAuthorize gets no call
NoCallWithoutARN(phase) ==
  \A response \in Responses :
    LET out == OneItem(ItemIn(phase, NoARN, 1), response, {Role(1, NoARN, NoDate)})
    IN /\ out.calls = <<>> /\ out.roles = {Role(1, NoARN, NoDate)}
       /\ out.toUpdate = <<ItemIn(phase, NoARN, 1)>>

\* C20: AuthorizeRole is called for an item only when its phase is Created
\* or FailedToAuthorize and its ARN is not empty; on success the phase is
\* Authorized if the returned role carries an authorization date and stays
\* Created otherwise; on failure it is FailedToAuthorize with the error
\* message stored; an item in Created without ARN gets no call and stays
\* as it is.
C20_AuthorizeOnlyWithARN ==
  /\ LoopRan =>
       /\ \A k \in AuthorizeCalls :
            LET i == calls[k].item
            IN /\ Enriched[i].Status \in {StatusCreated, StatusFailedToAuthorize}
               /\ Enriched[i].IamAssumedRoleArn # NoARN
               /\ calls[k].arn = Enriched[i].IamAssumedRoleArn
               /\ calls[k].roleID = Enriched[i].RoleID
               /\ CallsOf(i) = {k}
               /\ IF calls[k].ok
                    THEN /\ RoleWithID(calls[k].roleID).IAMAssumedRoleARN = calls[k].arn
                         /\ statuses[i].Status = PhaseFor(RoleWithID(calls[k].roleID))
                         /\ statuses[i].ErrorMessage = ""
                    ELSE /\ statuses[i].Status = StatusFailedToAuthorize
                         /\ statuses[i].ErrorMessage = ApiError
       /\ \A i \in 1..Len(Enriched) :
            (Enriched[i].Status = StatusCreated /\ Enriched[i].IamAssumedRoleArn = NoARN) =>
              /\ CallsOf(i) = {}
              /\ statuses[i] = Enriched[i]
  /\ \A arn \in ARNs, date \in {NoDate, SomeDate} :
       /\ AuthorizesOnce(StatusCreated, arn, date)
       /\ AuthorizesOnce(StatusFailedToAuthorize, arn, date)
  /\ NoCallWithoutARN(StatusCreated) /\ NoCallWithoutARN(StatusFailedToAuthorize)

\* a pass that authorized one item and left alone an item created without ARN
C20_Witness ==
  /\ LoopRan
  /\ \E k \in AuthorizeCalls :
       calls[k].ok /\ statuses[calls[k].item].Status = StatusAuthorized
  /\ \E i \in 1..Len(Enriched) :
       /\ Enriched[i].Status = StatusCreated /\ Enriched[i].IamAssumedRoleArn = NoARN
       /\ statuses[i].Status = StatusCreated

\* ---------------------------------------------------------------- C21
DeauthorizePhases == {StatusDeAuthorize, StatusFailedToDeAuthorize}

StatusesOfRole(id) == {j \in 1..Len(statuses) : statuses[j].RoleID = id}

\* C21: an item in phase DeAuthorize or FailedToDeAuthorize gets one
\* DeauthorizeRole call for its role; after a successful call the persisted
\* statuses hold no item for the role; after a failed call they hold the item
\* in phase FailedToDeAuthorize with the error message.
C21_FailedDeauthorizeIsRetained ==
  LoopRan =>
    \A i \in 1..Len(Enriched) :
      Enriched[i].Status \in DeauthorizePhases =>
        /\ Cardinality(CallsOf(i)) = 1
        /\ TheCallOf(i).op = "DeauthorizeRole"
        /\ TheCallOf(i).roleID = Enriched[i].RoleID
        /\ IF TheCallOf(i).ok
             THEN /\ StatusesOfRole(Enriched[i].RoleID) = {}
                  /\ \A r \in atlasRoles : r.RoleID # Enriched[i].RoleID
             ELSE \E j \in StatusesOfRole(Enriched[i].RoleID) :
                    /\ statuses[j].Status = StatusFailedToDeAuthorize
                    /\ statuses[j].ErrorMessage = ApiError

\* ---------------------------------------------------------------- C22
RECURSIVE Ascending(_)
Ascending(S) == IF S = {} THEN <<>> ELSE <<Min(S)>> \o Ascending(S \ {Min(S)})

\* the roles the pass found, with and without ARN
PriorWithARN    == {r \in priorRoles : r.IAMAssumedRoleARN # NoARN}
PriorWithoutARN == {r \in priorRoles : r.IAMAssumedRoleARN = NoARN}

\* the role of the first matching pass for desired item i, if there is one
RolesMatching(i) ==
  {r \in PriorWithARN : /\ r.ProviderName = DesiredList[i].ProviderName
                        /\ r.IAMAssumedRoleARN = DesiredList[i].IamAssumedRoleArn}

\* the desired items the first pass leaves unmatched, in desired order
Unmatched == Ascending({i \in 1..Len(DesiredList) : RolesMatching(i) = {}})

\* the ids of the roles without ARN: the earliest created first, and in
\* ascending order of the ids
RECURSIVE WithoutARNIn(_)
WithoutARNIn(order) ==
  IF order = <<>> THEN <<>>
  ELSE (IF \E r \in PriorWithoutARN : r.RoleID = Head(order) THEN <<Head(order)>> ELSE <<>>)
         \o WithoutARNIn(Tail(order))

EarliestCreatedFirst == WithoutARNIn(priorOrder)
LowestIdFirst        == Ascending({r.RoleID : r \in PriorWithoutARN})

\* what the pass did for item i follows the role the item was linked to
LinkedTo(i, id) ==
  /\ Enriched[i].RoleID = id
  /\ \A k \in CallsOf(i) : calls[k].op = "AuthorizeRole" /\ calls[k].roleID = id
  /\ statuses[i].RoleID = id

FirstPassLinks ==
  \A i \in 1..Len(DesiredList) : \A r \in RolesMatching(i) :
    /\ LinkedTo(i, r.RoleID)
    /\ Enriched[i].Status = PhaseFor(r)

\* the k-th unmatched item takes the k-th role of the order; the items for
\* which no role is left stay New and get a CreateRole call
SecondPassPairs(order) ==
  \A k \in 1..Len(Unmatched) :
    IF k <= Len(order)
      THEN LinkedTo(Unmatched[k], order[k])
      ELSE /\ Enriched[Unmatched[k]].Status = StatusNew
           /\ \A c \in CallsOf(Unmatched[k]) : calls[c].op = "CreateRole"

ClaimedAtMostOnce ==
  \A r \in PriorWithoutARN :
    Cardinality({i \in 1..Len(DesiredList) : Enriched[i].RoleID = r.RoleID}) <= 1

\* C22 as stated: a desired item with an ARN is linked to the remote role of
\* equal provider and ARN; the items still unmatched are paired, in desired
\* order, with the remote roles without ARN, the earliest created first;
\* each role without ARN is claimed by at most one desired item.
C22_AsStated ==
  LoopRan =>
    /\ FirstPassLinks
    /\ SecondPassPairs(EarliestCreatedFirst)
    /\ ClaimedAtMostOnce

\* C22 amended: the same with the roles without ARN taken in ascending
\* order of their role id, whenever they were created.
C22_TwoPassMatching ==
  LoopRan =>
    /\ FirstPassLinks
    /\ SecondPassPairs(LowestIdFirst)
    /\ ClaimedAtMostOnce

\* two items claimed two roles without ARN of which the one with the higher
\* id was created first
C22_Witness ==
  /\ LoopRan /\ Len(Unmatched) = 2
  /\ Len(EarliestCreatedFirst) = 2 /\ EarliestCreatedFirst # LowestIdFirst
  /\ statuses[Unmatched[1]].RoleID = LowestIdFirst[1]
  /\ statuses[Unmatched[2]].RoleID = LowestIdFirst[2]

\* ---------------------------------------------------------------- C23
\* the ids of the roles the two matching passes link to a desired item
LinkedRoleIds ==
  {r.RoleID : r \in UNION {RolesMatching(i) : i \in 1..Len(DesiredList)}}
    \cup {LowestIdFirst[k] :
            k \in {n \in 1..Len(LowestIdFirst) : n <= Len(Unmatched)}}

\* the identifiers the desired list declares: those of the items with an ARN
DeclaredIds ==
  {Identifier(x) : x \in {d \in Range(DesiredList) : d.IamAssumedRoleArn # NoARN}}

\* the remote roles no desired item corresponds to
RemoteOnly ==
  {r \in priorRoles : /\ r.RoleID \notin LinkedRoleIds
                      /\ RoleIdentifier(r.IAMAssumedRoleARN) \notin DeclaredIds}

DeauthorizeEntries == {i \in 1..Len(Enriched) : Enriched[i].Status \in DeauthorizePhases}

DeauthorizeCalls == {k \in 1..Len(calls) : calls[k].op = "DeauthorizeRole"}

\* C23: the statuses built in a pass hold a DeAuthorize entry for exactly the
\* remote roles that neither matching pass linked and whose identifier the
\* desired list does not declare, one entry each, after the entries of the
\* desired items; DeauthorizeRole is called for these roles only, never for
\* a role linked to a desired item in the pass.
C23_DeauthorizeOnlyRemoteOnly ==
  LoopRan =>
    /\ {Enriched[i].RoleID : i \in DeauthorizeEntries} = {r.RoleID : r \in RemoteOnly}
    /\ Cardinality(DeauthorizeEntries) = Cardinality(RemoteOnly)
    /\ \A i \in DeauthorizeEntries :
         /\ i > Len(DesiredList)
         /\ Enriched[i].Status = StatusDeAuthorize
         /\ \A j \in 1..Len(DesiredList) : Enriched[j].RoleID # Enriched[i].RoleID
         /\ Identifier(Enriched[i]) \notin DeclaredIds
    /\ \A k \in DeauthorizeCalls :
         /\ calls[k].item \in DeauthorizeEntries
         /\ calls[k].roleID = Enriched[calls[k].item].RoleID
         /\ calls[k].roleID \notin LinkedRoleIds
    /\ {calls[k].roleID : k \in DeauthorizeCalls} = {r.RoleID : r \in RemoteOnly}

\* a pass that kept the role linked to its desired item by ARN and removed
\* the role without ARN that no item claimed
C23_Witness ==
  /\ LoopRan /\ LinkedRoleIds # {}
  /\ \E k \in DeauthorizeCalls : calls[k].arn = NoARN /\ calls[k].ok
  /\ \E i \in 1..Len(statuses) : statuses[i].RoleID \in LinkedRoleIds

\* ---------------------------------------------------------------- C24
AuthorizedItems == {i \in 1..Len(statuses) : statuses[i].Status = StatusAuthorized}

\* C24: in the statuses of the project an item in phase Authorized carries
\* the id of its role in Atlas and an authorization date that is not empty;
\* after a pass that ran the loop they are the id and the date of a role
\* Atlas holds.
C24_AuthorizedIsPopulated ==
  \A i \in AuthorizedItems :
    /\ statuses[i].RoleID # NoRole
    /\ statuses[i].AuthorizedDate # NoDate
    /\ LoopRan => \E r \in atlasRoles :
                    /\ r.RoleID = statuses[i].RoleID
                    /\ r.AuthorizedDate = statuses[i].AuthorizedDate

\* an item the pass authorized next to one that is in Atlas without
\* authorization date
C24_Witness ==
  /\ LoopRan
  /\ \E i \in AuthorizedItems : \E k \in CallsOf(i) :
       calls[k].op = "AuthorizeRole" /\ calls[k].ok
  /\ \E j \in 1..Len(statuses) :
       /\ statuses[j].Status = StatusCreated /\ statuses[j].RoleID # NoRole
       /\ statuses[j].AuthorizedDate = NoDate

\* ---------------------------------------------------------------- C25
Condition(op, reason, message) ==
  [type |-> CloudProviderIntegrationReadyType, op |-> op,
   reason |-> reason, message |-> message]

\* C25 as stated: the readiness condition mirrors the result of the pass:
\* Ok sets it true; InProgress and Terminate set it false with the reason
\* and the message of the result.
C25_AsStated ==
  EnsureRan =>
    /\ IsOk(result) => conds = <<Condition("True", "", "")>>
    /\ result.kind \in {"InProgress", "Terminate"} =>
         conds = <<Condition("False", result.reason, result.message)>>

\* C25 amended: Terminate sets the condition false with the reason and the
\* message of the result; InProgress sets it false without reason or message;
\* Ok after the sync sets it true, with the deprecation warning as message
\* when the deprecated field is in use; the Ok of a pass that found neither
\* desired items nor statuses removes the condition.
C25_ConditionPerResult ==
  EnsureRan =>
    /\ result.kind = "Terminate" =>
         conds = <<Condition("False", result.reason, result.message)>>
    /\ result.kind = "InProgress" =>
         /\ conds = <<Condition("False", "", "")>>
         /\ result.reason # "" /\ result.message # ""
    /\ (IsOk(result) /\ stage = "loop") =>
         conds = <<Condition("True", "",
                             IF Len(spec.CloudProviderAccessRoles) > 0
                               THEN MsgDeprecated ELSE "")>>
    /\ (IsOk(result) /\ stage # "loop") =>
         /\ stage = "empty"
         /\ conds = <<Condition("Unset", "", "")>>

\* an InProgress pass: the condition is false and carries neither the reason
\* nor the message of the result
C25_Witness ==
  /\ EnsureRan /\ result = InProgress(ProjectCloudIntegrationsIsNotReadyInAtlas, MsgNotAllAuth)
  /\ conds = <<Condition("False", "", "")>>
  /\ calls # <<>>

\* ---------------------------------------------------------------- C26
ReconcileRan == handler = ReconcileName

StepNames(cs) == [k \in 1..Len(cs) |-> cs[k].op]

\* the steps of a Reconcile that got as far as ensureFederatedAuth
StepsToEnsure ==
  <<"PrepareResource", "MarkReconciliationStarted", "ValidateResourceVersion",
    "IsResourceSupported", "SdkClient", "IsOwner", "ensureFederatedAuth",
    "statushandler.Update">>

\* what the collaborators must answer for ensureFederatedAuth to be reached
ClearedForEnsure(in) ==
  /\ IsOk(in.prepare) /\ ~in.skip /\ IsOk(in.version) /\ in.supported
  /\ ~in.clientErr /\ ~in.ownerErr /\ in.owner

\* the ownership check was reached
ReachesOwnerCheck(in) ==
  IsOk(in.prepare) /\ ~in.skip /\ IsOk(in.version) /\ in.supported /\ ~in.clientErr

EnsureInvoked(out) == \E k \in 1..Len(out.calls) : out.calls[k].op = "ensureFederatedAuth"

\* C26: the federated-auth Reconcile invokes ensureFederatedAuth only when
\* the resource was prepared, not skipped, version-valid and supported, the
\* API client was obtained and IsOwner answered owner without error, and
\* only after IsOwner; when IsOwner errs or answers not-owner, Reconcile
\* sets the FederatedAuthReady condition from a Terminate result and does
\* not invoke ensureFederatedAuth.
C26_OwnershipGatesEnsure ==
  ReconcileRan =>
    /\ "ensureFederatedAuth" \in StepsTaken =>
         /\ StepNames(calls) = StepsToEnsure
         /\ gate = "permitted" /\ stage = "ensure"
    /\ gate \in {"error", "denied"} =>
         /\ result.kind = "Terminate"
         /\ conds = <<SetConditionFromResult(FederatedAuthReadyType, result)>>
         /\ conds[1].op = "False"
         /\ "IsOwner" \in StepsTaken
         /\ "ensureFederatedAuth" \notin StepsTaken
    /\ \A in \in ReconcileInputs :
         /\ EnsureInvoked(Reconcile(in)) <=> ClearedForEnsure(in)
         /\ (ReachesOwnerCheck(in) /\ (in.ownerErr \/ ~in.owner)) =>
              /\ Reconcile(in).result.kind = "Terminate"
              /\ Reconcile(in).conds =
                   <<SetConditionFromResult(FederatedAuthReadyType, Reconcile(in).result)>>
              /\ Reconcile(in).gate \in {"error", "denied"}

\* a Reconcile whose ownership check failed with an error
C26_Witness ==
  /\ ReconcileRan /\ gate = "error" /\ stage = "owner"
  /\ "IsOwner" \in StepsTaken /\ "ensureFederatedAuth" \notin StepsTaken
  /\ result.reason = Internal

\* ---------------------------------------------------------------- C27
\* status lists a project may carry from earlier passes
OtherStatuses ==
  {<<ItemIn(StatusFailedToCreate, "arn1", NoRole)>>,
   <<ItemIn(StatusFailedToAuthorize, "arn2", 3)>>,
   <<[NewCloudProviderIntegration(AWS, "arn2") EXCEPT
        !.Status = StatusAuthorized, !.RoleID = 2, !.AuthorizedDate = SomeDate],
     [NewCloudProviderIntegration(AWS, NoARN) EXCEPT
        !.Status = StatusCreated, !.RoleID = 1]>>}

\* the pass over the desired list and the roles the last pass found, from
\* the given persisted statuses
PassFrom(roleStatuses, syncListFails, order, responses, pick) ==
  ensureCloudProviderIntegration(protected, spec, annotation, roleStatuses, priorRoles,
                                 PassInput(FALSE, syncListFails, order, responses, pick))

\* what syncCloudProviderIntegration did in the two passes: its calls, the
\* roles it left, the result, and the statuses it persisted if it got that far
SameSync(a, b) ==
  /\ a.calls = b.calls /\ a.roles = b.roles
  /\ a.result = b.result /\ a.conds = b.conds /\ a.stage = b.stage
  /\ a.stage = "loop" => a.statuses = b.statuses

\* C27: over the same desired list, the same remote roles and the same
\* responses, the pass issues the same calls, persists the same statuses and
\* returns the same result whatever non-empty status list the project
\* carried before; the pass that ran is one of these.
C27_PriorStatusesAreIrrelevant ==
  (EnsureRan /\ priorStatuses # <<>>) =>
    /\ \A other \in OtherStatuses, lf \in BOOLEAN, o \in {"asc", "desc"},
          r \in ResponseFunctions(Enriched), p \in {"lo", "hi"} :
         SameSync(PassFrom(priorStatuses, lf, o, r, p), PassFrom(other, lf, o, r, p))
    /\ stage = "loop" =>
         \E r \in ResponseFunctions(Enriched), p \in {"lo", "hi"} :
           \A other \in OtherStatuses :
             /\ PassFrom(other, FALSE, "asc", r, p).calls = calls
             /\ PassFrom(other, FALSE, "asc", r, p).statuses = statuses
             /\ PassFrom(other, FALSE, "asc", r, p).result = result

\* a pass that found the failure of the pass before it, made calls and
\* persisted other statuses than it found
C27_Witness ==
  /\ EnsureRan /\ stage = "loop" /\ calls # <<>>
  /\ priorStatuses # <<>> /\ priorStatuses \notin OtherStatuses
  /\ statuses # priorStatuses
  /\ \E i \in 1..Len(priorStatuses) : priorStatuses[i].ErrorMessage # ""

\* ---------------------------------------------------------------- C28
CreateRoleCalls == {k \in 1..Len(calls) : calls[k].op = "CreateRole"}

\* C28: from a project without remote roles, with a fixed desired list and
\* no other writer, Atlas never holds more roles than the desired list has
\* items, whatever calls fail: a pass calls CreateRole only for the items for
\* which no role is left to claim, and deauthorizes nothing.
C28_NoDuplicateCreation ==
  /\ Cardinality(atlasRoles) <= Len(DesiredList)
  /\ LoopRan =>
       /\ Cardinality(priorRoles) <= Len(DesiredList)
       /\ Cardinality(CreateRoleCalls) = Len(DesiredList) - Cardinality(priorRoles)
       /\ \A k \in CreateRoleCalls : calls[k].ok => calls[k].roleID \notin LinkedRoleIds
       /\ LinkedRoleIds = {r.RoleID : r \in priorRoles}
       /\ DeauthorizeCalls = {}

\* after a pass in which one CreateRole failed, a pass claimed the role
\* created then and created the one still missing
C28_Witness ==
  /\ LoopRan /\ Len(DesiredList) = 2
  /\ Cardinality(priorRoles) = 1 /\ Cardinality(atlasRoles) = 2
  /\ \E i \in 1..Len(priorStatuses) : priorStatuses[i].Status = StatusFailedToCreate
  /\ Cardinality(CreateRoleCalls) = 1
  /\ \A k \in CreateRoleCalls : calls[k].ok

\* ---------------------------------------------------------------- C29
\* C29: a pass that got past ListRoles persists a status list with exactly
\* one entry per desired item, in desired order, none of them in phase
\* DeAuthorize or FailedToDeAuthorize; it persists the list when a call
\* failed as well, with the failure of each item in it.
C29_PersistedListFollowsDesired ==
  LoopRan =>
    /\ Len(statuses) = Len(DesiredList)
    /\ \A i \in 1..Len(statuses) :
         /\ statuses[i].ProviderName = DesiredList[i].ProviderName
         /\ statuses[i].IamAssumedRoleArn = DesiredList[i].IamAssumedRoleArn
         /\ statuses[i].Status \notin DeauthorizePhases
         /\ statuses[i].RoleID \notin {Enriched[j].RoleID : j \in DeauthorizeEntries}
         /\ (statuses[i].ErrorMessage # "") <=> (\E k \in CallsOf(i) : ~calls[k].ok)
    /\ SomeCallFailed => result.kind = "Terminate"

\* a failed pass that removed a remote-only role and persisted the failure
\* of a desired item
C29_Witness ==
  /\ LoopRan /\ result.kind = "Terminate"
  /\ \E k \in DeauthorizeCalls : calls[k].ok
  /\ Len(statuses) = 2 /\ statuses # priorStatuses
  /\ \E i \in 1..Len(statuses) : statuses[i].ErrorMessage # ""

\* ---------------------------------------------------------------- C30
FailedPECalls == {k \in 1..Len(calls) : ~calls[k].ok}

\* the calls a sync without failure makes for the lists of the pass
CreatesDue == DifferencePE(SpecEndpoints, listedPEs)
DeletesDue == DifferencePE(listedPEs, SpecEndpoints)

\* C30: syncPrivateEndpointsWithAtlas issues every create before any delete;
\* the first call that fails is the last call of the pass and makes the
\* result Terminate(Internal); when a create fails no delete is issued; a
\* pass returns Terminate only after a failed call.
C30_FailFastCreatesFirst ==
  EnsurePERan =>
    /\ \A i \in CreateCalls, j \in DeleteCalls : i < j
    /\ \A k \in FailedPECalls :
         /\ k = Len(calls)
         /\ result = Terminate(Internal, ApiError)
         /\ k \in CreateCalls => DeleteCalls = {}
    /\ Cardinality(CreateCalls) <= Cardinality(CreatesDue)
    /\ Cardinality(DeleteCalls) <= Cardinality(DeletesDue)
    /\ DeleteCalls # {} => /\ Cardinality(CreateCalls) = Cardinality(CreatesDue)
                           /\ \A i \in CreateCalls : calls[i].ok
    /\ FailedPECalls = {} =>
         /\ IsOk(result)
         /\ Len(calls) = Cardinality(CreatesDue) + Cardinality(DeletesDue)

\* a create failed while an endpoint was due for deletion: the pass made
\* no other call
C30_Witness ==
  /\ EnsurePERan /\ Len(calls) = 1
  /\ calls[1].op = "CreateOnePrivateEndpoint" /\ ~calls[1].ok
  /\ DeletesDue # {}
  /\ result.kind = "Terminate"

\* ---------------------------------------------------------------- C31
PEListFailed == EnsurePERan /\ stage = "listFailed"

\* C31: when GetAllPrivateEndpoints fails, ensurePrivateEndpoints goes on
\* with an empty remote list: every call of the pass is a create for a
\* desired endpoint, none is a delete, and unless a create fails every desired
\* endpoint gets one create and the result is Ok; the failure of the list
\* call is in no result. In every pass the readiness condition is written
\* exactly when the result of the sync is not Ok, from that result.
C31_ListFailureIsNotSurfaced ==
  /\ PEListFailed =>
       /\ listedPEs = <<>>
       /\ DeleteCalls = {}
       /\ CreateCalls = 1..Len(calls)
       /\ \A i \in CreateCalls : calls[i].endpoint \in Range(SpecEndpoints)
       /\ \A i, j \in CreateCalls : calls[i].endpoint = calls[j].endpoint => i = j
       /\ NoPECallFailed =>
            /\ {calls[i].endpoint : i \in CreateCalls} = Range(SpecEndpoints)
            /\ IsOk(result)
            /\ Range(SpecEndpoints) \subseteq atlasEndpoints
       /\ ~IsOk(result) => (FailedPECalls = {Len(calls)} /\ result = Terminate(Internal, ApiError))
  /\ EnsurePERan =>
       IF IsOk(result) THEN conds = <<>>
       ELSE conds = <<SetConditionFromResult(DataFederationPEReadyType, result)>>

\* the list call failed, every desired endpoint was created, and an endpoint
\* of Atlas that is not desired stayed; the pass ended Ok with no condition
C31_Witness ==
  /\ PEListFailed /\ NoPECallFailed /\ IsOk(result) /\ conds = <<>>
  /\ SpecEndpoints # <<>> /\ Len(calls) = Len(SpecEndpoints)
  /\ \E e \in atlasEndpoints : e.EndpointID \notin EndpointIdsOf(Range(SpecEndpoints))

====
